---- MODULE Spec2Model ----
(***************************************************************************)
(* The sticker-peel interaction engine of northface-2025fw:                *)
(* useStickerAnimation (construction, pointer/touch handlers, destroy,     *)
(* reset, trigger), the shared stylesheet, the layered DOM structure and   *)
(* the peel geometry.                                                      *)
(*                                                                         *)
(* Numbers are integers.  shadowIntensity is kept in tenths (0.7 is 7).    *)
(* A JavaScript number that may be NaN is a record [nan, v].               *)
(* An optional value (T | null) is a sequence: <<>> is null, <<x>> is x.   *)
(***************************************************************************)
EXTENDS Integers, Sequences, FiniteSets, Bags, TLC

VARIABLES
    kids,         \* DOM tree: parent node -> sequence of its child nodes
    display,      \* element.style.display of every target element
    styleCount,   \* number of <style id="sticker-animation-styles"> in document.head
    instances,    \* the closure state of every useStickerAnimation call
    docMouseUp,   \* 'mouseup' listeners registered on document, in order
    hasIntersectionObserver, \* 'IntersectionObserver' in window
    call,         \* history: the last operation (construct, destroy, reset,
                  \* trigger, a document mouseup or another event) and
                  \* whether it threw
    snap,         \* history: the DOM as it was before the last construction
    auto,         \* the closure state of a createAutoAnimation call, the
                  \* animation frames requested for it, and its history
    page          \* the module-level state of the page utilities (the resize
                  \* timer of the scroll-trigger glue, the computed-style
                  \* cache), their pending timeouts, and their history

vars == <<kids, display, styleCount, instances, docMouseUp,
          hasIntersectionObserver, call, snap, auto, page>>

-----------------------------------------------------------------------------
(* Bounds *)

NumInst == 2
MaxMouseUp == 2
MaxTimers == 2
MaxFirstFrame == 1
MaxFrameStep == 2
MaxAutoDuration == 8
MaxTimeouts == 5
MaxTriggers == 4

Instances == 1..NumInst
Solo == CHOOSE i \in Instances : \A j \in Instances : i <= j

-----------------------------------------------------------------------------
(* Values *)

None == <<>>
Some(x) == <<x>>

Min(a, b) == IF a < b THEN a ELSE b
Abs(a) == IF a < 0 THEN -a ELSE a

JsNum(n) == [nan |-> FALSE, v |-> n]
NaN == [nan |-> TRUE, v |-> 0]
\* JavaScript's a <= b, a < b, a > b on numbers: false when either is NaN
JsLe(a, b) == ~a.nan /\ ~b.nan /\ a.v <= b.v
JsLt(a, b) == ~a.nan /\ ~b.nan /\ a.v < b.v
JsGt(a, b) == ~a.nan /\ ~b.nan /\ a.v > b.v

-----------------------------------------------------------------------------
(* DOM nodes *)

Body == <<"body", 0>>
Sibling == <<"sibling", 0>>
Target(n) == <<"target", n>>
Wrapper(i) == <<"wrapper", i>>
Container(i) == <<"container", i>>
NoNode == <<"none", 0>>
\* values a caller can pass that are not HTMLElements
NullTarget == <<"null", 0>>
NotElement == <<"object", 0>>
\* an HTMLElement that is in no document
DetachedTarget == Target(0)

AttachedTargets == {Target(n) : n \in Instances}
Elements == AttachedTargets \cup {DetachedTarget}
TargetInputs == Elements \cup {NullTarget, NotElement}
ParentNodes == {Body} \cup {Wrapper(i) : i \in Instances}

InitialBody == <<Target(1), Sibling>> \o [n \in 1..(NumInst - 1) |-> Target(n + 1)]

Range(s) == {s[n] : n \in DOMAIN s}

\* node.parentNode
ParentOf(k, n) ==
    IF \E p \in DOMAIN k : n \in Range(k[p])
    THEN CHOOSE p \in DOMAIN k : n \in Range(k[p])
    ELSE NoNode

\* node.remove()
RemoveNode(k, n) ==
    [p \in DOMAIN k |-> LET Keep(x) == x # n IN SelectSeq(k[p], Keep)]

IndexOf(s, x) == CHOOSE n \in DOMAIN s : s[n] = x

\* parent.insertBefore(new, ref), ref a child of parent
InsertBefore(k, p, new, ref) ==
    LET k1 == RemoveNode(k, new)
        at == IndexOf(k1[p], ref)
    IN [k1 EXCEPT ![p] = SubSeq(k1[p], 1, at - 1) \o <<new>> \o SubSeq(k1[p], at, Len(k1[p]))]

\* parent.appendChild(new)
AppendChild(k, p, new) ==
    LET k1 == RemoveNode(k, new)
    IN [k1 EXCEPT ![p] = Append(k1[p], new)]

\* whether a node is in the document
RECURSIVE InDocument(_, _)
InDocument(k, n) ==
    IF n = Body THEN TRUE
    ELSE LET p == ParentOf(k, n) IN IF p = NoNode THEN FALSE ELSE InDocument(k, p)

-----------------------------------------------------------------------------
(* Configuration *)

DefaultDuration == 800
DefaultShadowIntensity == 7
DefaultDelay == 0
DefaultEasing == "cubic-bezier(0.23, 1, 0.32, 1)"
Directions == {"left", "right", "top", "bottom"}

DEFAULT_CONFIG ==
    [duration |-> JsNum(DefaultDuration),
     easing |-> DefaultEasing,
     direction |-> "left",
     delay |-> JsNum(DefaultDelay),
     shadowIntensity |-> JsNum(DefaultShadowIntensity)]

\* { ...DEFAULT_CONFIG, ...config }: a key of config overrides the default
MergeConfig(config) ==
    [f \in DOMAIN DEFAULT_CONFIG |->
        IF f \in DOMAIN config THEN config[f] ELSE DEFAULT_CONFIG[f]]

\* if (finalConfig.duration <= 0) finalConfig.duration = DEFAULT_CONFIG.duration
ValidateDuration(c) ==
    IF JsLe(c.duration, JsNum(0))
    THEN [c EXCEPT !.duration = DEFAULT_CONFIG.duration]
    ELSE c

\* if (shadowIntensity < 0 || shadowIntensity > 1) shadowIntensity = default
ValidateShadowIntensity(c) ==
    IF JsLt(c.shadowIntensity, JsNum(0)) \/ JsGt(c.shadowIntensity, JsNum(10))
    THEN [c EXCEPT !.shadowIntensity = DEFAULT_CONFIG.shadowIntensity]
    ELSE c

FinalConfig(config) == ValidateShadowIntensity(ValidateDuration(MergeConfig(config)))


-----------------------------------------------------------------------------
(* Geometry (sticker-animation-events) *)

\* getElementSize(targetElement): the content box of the rendered target
ElementSize == [width |-> 200, height |-> 100]

\* container.getBoundingClientRect() + window.page{X,Y}Offset
ContainerOrigin == [x |-> 2, y |-> 1]

\* half of n rounded up
Shr1Ceil(n) == (n + 1) \div 2

\* n >> 1 on an integer
Shr1(n) == n \div 2

GetDirectionVerticalFirst(e, pos, minSide) ==
    LET tx == e.pageX - pos.x
        ty == e.pageY - pos.y
    IN IF 4 * ty < minSide THEN "top"
       ELSE IF 4 * tx < minSide THEN "left"
       ELSE IF 4 * tx > 3 * minSide THEN "right"
       ELSE "bottom"

\* getDirection(e, pos, sizeQ) with sizeQ = minSide / 4; the comparisons
\* tx < sizeQ, tx > 3 * sizeQ, ty < sizeQ are taken times four to stay exact
GetDirection(e, pos, minSide) ==
    LET tx == e.pageX - pos.x
        ty == e.pageY - pos.y
    IN IF 4 * tx < minSide THEN "left"
       ELSE IF 4 * tx > 3 * minSide THEN "right"
       ELSE IF 4 * ty < minSide THEN "top"
       ELSE "bottom"

CalculatePeelValues(event, pos, size, direction) ==
    LET tx == event.pageX - pos.x
        ty == event.pageY - pos.y
        a == size.width - tx
        b == size.height - ty
        c == Shr1(tx)
        d == Shr1(ty)
        e == Shr1(a)
        f == Shr1(b)
    IN CASE direction = "left" ->
              [bx |-> -size.width, by |-> 0, sx |-> -1, sy |-> 1, bs |-> "shadowL",
               bmx |-> -size.width + tx, bmy |-> 0,
               bsw |-> tx, bsh |-> size.height, bsx |-> a, bsy |-> 0,
               cw |-> size.width - c, ch |-> size.height, cx |-> c, cy |-> 0,
               dw |-> c, dh |-> size.height, dx |-> c - Shr1(c), dy |-> 0]
         [] direction = "right" ->
              [bx |-> size.width, by |-> 0, sx |-> -1, sy |-> 1, bs |-> "shadowR",
               bmx |-> tx, bmy |-> 0,
               bsw |-> a, bsh |-> size.height, bsx |-> 0, bsy |-> 0,
               cw |-> size.width - e, ch |-> size.height, cx |-> 0, cy |-> 0,
               dw |-> e, dh |-> size.height, dx |-> size.width - a + Shr1(e), dy |-> 0]
         [] direction = "top" ->
              [bx |-> 0, by |-> -size.height, sx |-> 1, sy |-> -1, bs |-> "shadowT",
               bmx |-> 0, bmy |-> -size.height + ty,
               bsw |-> size.width, bsh |-> ty, bsx |-> 0, bsy |-> b,
               cw |-> size.width, ch |-> size.height - d, cx |-> 0, cy |-> d,
               dw |-> size.width, dh |-> d, dx |-> 0, dy |-> d - Shr1(d)]
         [] OTHER ->
              [bx |-> 0, by |-> size.height, sx |-> 1, sy |-> -1, bs |-> "shadowB",
               bmx |-> 0, bmy |-> ty,
               bsw |-> size.width, bsh |-> b, bsx |-> 0, bsy |-> 0,
               cw |-> size.width, ch |-> size.height - f, cx |-> 0, cy |-> 0,
               dw |-> size.width, dh |-> f, dx |-> 0, dy |-> size.height - b + Shr1(f)]

-----------------------------------------------------------------------------
(* Styles of the layered structure *)

\* a CSS transition "<prop> <ms>ms <easing>"; "all 0s" is AllZero
Transition(prop, ms, easing) == [prop |-> prop, ms |-> ms, easing |-> easing]
AllZero == Transition("all", JsNum(0), "")
NoTransition == Transition("", JsNum(0), "")

DropShadow == "drop-shadow(0 2px 4px rgba(0, 0, 0, 0.2))"

\* className `sticker-shadow ${bs}`
ShadowClass(bs) ==
    CASE bs = "shadowL" -> "sticker-shadow shadowL"
      [] bs = "shadowR" -> "sticker-shadow shadowR"
      [] bs = "shadowT" -> "sticker-shadow shadowT"
      [] OTHER -> "sticker-shadow shadowB"

\* the inline styles and classes createStickerDOM gives the layers
CreateStickerDOM(width, height) ==
    [container |-> [filter |-> "", opacity |-> "", transition |-> NoTransition,
                    cssVars |-> None],
     mask |-> [transition |-> AllZero, width |-> width, height |-> height,
               transform |-> None],
     move |-> [transition |-> AllZero, transform |-> None],
     back |-> [transition |-> AllZero, transform |-> <<width, 0>>],
     backImg |-> [transform |-> None],
     backShadow |-> [width |-> width, height |-> height, transform |-> None,
                     className |-> "sticker-shadow"],
     depth |-> [width |-> width, height |-> height, transform |-> <<-10000, -10000>>,
                className |-> "sticker-shadow sticker-depth"]]

\* an applier that leaves the back shadow at the origin
ApplyPeelStylesShadowAtOrigin(dom, values, transition) ==
    [dom EXCEPT
        !.mask = [transition |-> transition, width |-> values.cw,
                  height |-> values.ch, transform |-> <<values.cx, values.cy>>],
        !.move = [transition |-> transition, transform |-> <<-values.cx, -values.cy>>],
        !.back = [transition |-> transition, transform |-> <<values.bmx, values.bmy>>],
        !.backImg = [transform |-> <<values.sx, values.sy>>],
        !.backShadow = [@ EXCEPT !.width = values.bsw, !.height = values.bsh,
                                 !.transform = <<0, 0>>],
        !.depth = [@ EXCEPT !.width = values.dw, !.height = values.dh,
                            !.transform = <<values.dx, values.dy>>]]

\* applyPeelStyles(domStructure, values, transition)
ApplyPeelStyles(dom, values, transition) ==
    [dom EXCEPT
        !.mask = [transition |-> transition, width |-> values.cw,
                  height |-> values.ch, transform |-> <<values.cx, values.cy>>],
        !.move = [transition |-> transition, transform |-> <<-values.cx, -values.cy>>],
        !.back = [transition |-> transition, transform |-> <<values.bmx, values.bmy>>],
        !.backImg = [transform |-> <<values.sx, values.sy>>],
        !.backShadow = [@ EXCEPT !.width = values.bsw, !.height = values.bsh,
                                 !.transform = <<values.bsx, values.bsy>>],
        !.depth = [@ EXCEPT !.width = values.dw, !.height = values.dh,
                            !.transform = <<values.dx, values.dy>>]]

-----------------------------------------------------------------------------
(* Instance state: the variables closed over by one useStickerAnimation call *)

RECURSIVE Gcd(_, _)
Gcd(a, b) == IF b = 0 THEN a ELSE Gcd(b, a % b)

\* the rational n / d in lowest terms, d > 0
Frac(n, d) ==
    LET g == Gcd(Abs(n), Abs(d))
        s == IF d < 0 THEN -1 ELSE 1
    IN [num |-> s * (n \div g), den |-> s * (d \div g)]

Zero == [num |-> 0, den |-> 1]
One == [num |-> 1, den |-> 1]

Identity == "identity"

InitialAnimationState(direction) ==
    [phase |-> "idle", progress |-> Zero, direction |-> direction,
     startTime |-> "0", currentTransform |-> Identity]

NoObserver == [exists |-> FALSE, observing |-> FALSE, hasTriggered |-> FALSE]

\* a slot on which useStickerAnimation has not returned
NoInstance ==
    [life |-> "none", target |-> NoNode, finalConfig |-> DEFAULT_CONFIG,
     animationState |-> InitialAnimationState("left"),
     currentDirection |-> "left", savePos |-> None, elementPos |-> None,
     cleanupStyles |-> "noop", eventsBound |-> FALSE, observer |-> NoObserver,
     timers |-> EmptyBag, dom |-> CreateStickerDOM(ElementSize.width, ElementSize.height)]

-----------------------------------------------------------------------------
(* Pointer handlers of one instance; S is the instance's state *)

HandleMouseEnter(S, e) ==
    LET pos == ContainerOrigin
        direction == GetDirection(e, pos, Min(ElementSize.width, ElementSize.height))
        values == CalculatePeelValues(e, pos, ElementSize, direction)
        classed == [S.dom EXCEPT
                       !.backShadow.className = ShadowClass(values.bs),
                       !.depth.className = ShadowClass(values.bs),
                       !.container.cssVars =
                           Some([shadowIntensity |-> S.finalConfig.shadowIntensity,
                                 duration |-> S.finalConfig.duration])]
    IN [S EXCEPT
           !.elementPos = Some(pos),
           !.currentDirection = direction,
           !.savePos = Some(values),
           !.dom = ApplyPeelStyles(classed, values, AllZero),
           !.animationState.phase = "peeling",
           !.animationState.direction = direction,
           !.animationState.startTime = "Date.now()"]

SetTimeoutTwice(timers, kind, delay) ==
    timers (+) SetToBag({[kind |-> kind, delay |-> delay]})
           (+) SetToBag({[kind |-> kind, delay |-> delay]})

\* setTimeout(callback, delay)
SetTimeout(timers, kind, delay) == timers (+) SetToBag({[kind |-> kind, delay |-> delay]})

\* a leave that applies the values of its own sample, without the snap-back
HandleMouseLeaveNoSnapBack(S, e) ==
    IF S.savePos = None THEN S
    ELSE [S EXCEPT
             !.dom = ApplyPeelStyles(@, CalculatePeelValues(e, S.elementPos[1], ElementSize,
                                                            S.currentDirection),
                                     Transition("all", S.finalConfig.duration,
                                                S.finalConfig.easing)),
             !.animationState.phase = "stuck",
             !.animationState.progress = One,
             !.savePos = None,
             !.timers = SetTimeout(@, "dropShadow", S.finalConfig.duration)]

HandleMouseLeave(S, e) ==
    IF S.savePos = None THEN S
    ELSE
    LET transition == Transition("all", S.finalConfig.duration, S.finalConfig.easing)
        dir == S.currentDirection
        resetValues == CalculatePeelValues(e, S.elementPos[1], ElementSize, dir)
        values == [resetValues EXCEPT
                      !.bmx = IF dir = "left" THEN -ElementSize.width
                              ELSE IF dir = "right" THEN ElementSize.width ELSE 0,
                      !.bmy = IF dir = "top" THEN -ElementSize.height
                              ELSE IF dir = "bottom" THEN ElementSize.height ELSE 0,
                      !.cw = ElementSize.width,
                      !.ch = ElementSize.height,
                      !.cx = 0,
                      !.cy = 0,
                      !.dx = -10000,
                      !.dy = -10000]
    IN [S EXCEPT
           !.dom = ApplyPeelStyles(@, values, transition),
           !.animationState.phase = "stuck",
           !.animationState.progress = One,
           !.savePos = None,
           !.timers = SetTimeout(@, "dropShadow", S.finalConfig.duration)]

\* a move whose back face lags halfway behind the sample of the enter
HandleMouseMoveSmoothed(S, e) ==
    LET entering == S.savePos = None \/ S.elementPos = None
        S1 == IF entering THEN HandleMouseEnter(S, e) ELSE S
        dir == S1.currentDirection
        values == CalculatePeelValues(e, S1.elementPos[1], ElementSize, dir)
        newValues == [values EXCEPT !.bmx = (@ + S1.savePos[1].bmx) \div 2,
                                    !.bmy = (@ + S1.savePos[1].bmy) \div 2]
    IN [inst |-> [S1 EXCEPT !.dom = ApplyPeelStyles(@, newValues, AllZero)],
        listen |-> entering]

\* the result also says whether a document mouseup listener was registered
HandleMouseMove(S, e) ==
    LET entering == S.savePos = None \/ S.elementPos = None
        S1 == IF entering THEN HandleMouseEnter(S, e) ELSE S
        dir == S1.currentDirection
        newValues == CalculatePeelValues(e, S1.elementPos[1], ElementSize, dir)
        maxDistance == IF dir \in {"left", "right"}
                       THEN ElementSize.width ELSE ElementSize.height
        currentDistance == IF dir \in {"left", "right"}
                           THEN Abs(newValues.bmx) ELSE Abs(newValues.bmy)
    IN [inst |-> [S1 EXCEPT
                     !.dom = ApplyPeelStyles(@, newValues, AllZero),
                     !.animationState.progress =
                         Frac(maxDistance - currentDistance, maxDistance)],
        listen |-> entering]

\* showElement of the intersection callback
ShowElement(S) ==
    [S EXCEPT !.dom.container.opacity = "1", !.observer.observing = FALSE]

OnIntersectionEveryTime(S, isIntersecting) ==
    IF isIntersecting
    THEN LET S1 == [S EXCEPT !.observer.hasTriggered = TRUE]
         IN IF JsGt(S.finalConfig.delay, JsNum(0))
            THEN [S1 EXCEPT !.timers = SetTimeout(@, "show", S.finalConfig.delay)]
            ELSE ShowElement(S1)
    ELSE S

\* the IntersectionObserver callback for one entry
OnIntersection(S, isIntersecting) ==
    IF isIntersecting /\ ~S.observer.hasTriggered
    THEN LET S1 == [S EXCEPT !.observer.hasTriggered = TRUE]
         IN IF JsGt(S.finalConfig.delay, JsNum(0))
            THEN [S1 EXCEPT !.timers = SetTimeout(@, "show", S.finalConfig.delay)]
            ELSE ShowElement(S1)
    ELSE S

\* the callback of a timeout
RunTimer(S, kind) ==
    IF kind = "dropShadow"
    THEN [S EXCEPT !.dom.container.filter = DropShadow]
    ELSE ShowElement(S)

ResetClearsSession(S) ==
    [S EXCEPT !.animationState =
                 [@ EXCEPT !.phase = "idle", !.progress = Zero, !.startTime = "0",
                           !.currentTransform = Identity],
              !.savePos = None,
              !.elementPos = None]

Reset(S) ==
    [S EXCEPT !.animationState =
        [@ EXCEPT !.phase = "idle", !.progress = Zero, !.startTime = "0",
                  !.currentTransform = Identity]]

TriggerFromIdleOnly(S) ==
    IF S.animationState.phase = "idle"
    THEN [S EXCEPT !.animationState.phase = "peeling",
                   !.animationState.startTime = "Date.now()"]
    ELSE S

Trigger(S) ==
    IF S.animationState.phase \in {"idle", "stuck"}
    THEN [S EXCEPT !.animationState.phase = "peeling",
                   !.animationState.startTime = "Date.now()"]
    ELSE S

-----------------------------------------------------------------------------
(* Construction and destruction; W is the document and every instance *)

World ==
    [kids |-> kids, display |-> display, styleCount |-> styleCount,
     instances |-> instances, docMouseUp |-> docMouseUp]

SetDisplay(d, t, value) == IF t \in DOMAIN d THEN [d EXCEPT ![t] = value] ELSE d

InjectGlobalStylesAlways(count) == [count |-> count + 1, cleanup |-> "remove"]

\* injectGlobalStyles(): the number of style elements afterwards and the
\* cleanup closure returned (a no-op when the style element already existed)
InjectGlobalStyles(count) ==
    IF count > 0
    THEN [count |-> count, cleanup |-> "noop"]
    ELSE [count |-> count + 1, cleanup |-> "remove"]

\* a cleanup that removes the style element whoever injected it
CleanupStylesAny(cleanup, count) == IF count > 0 THEN count - 1 ELSE count

\* the closure returned by injectGlobalStyles: removes the element that
\* getElementById(STYLE_ID) finds when it runs
CleanupStyles(cleanup, count) ==
    IF cleanup = "remove" /\ count > 0 THEN count - 1 ELSE count

IsHTMLElementNotNull(t) == t # NullTarget

\* targetElement && targetElement instanceof HTMLElement
IsHTMLElement(t) == t \in Elements

\* insertStickerDOM(wrapper, structure, originalElement)
InsertStickerDOM(W, wrapper, container, original) ==
    LET ks == W.kids[wrapper]
        at == IndexOf(ks, original)
        cleared == [W.kids EXCEPT ![wrapper] = SubSeq(ks, at, Len(ks))]
    IN [W EXCEPT !.display = SetDisplay(@, original, "none"),
                 !.kids = InsertBefore(cleared, wrapper, container, original)]

\* useStickerAnimation from the configuration checks on (the target is valid)
ConstructValid(W, i, t, config) ==
    LET finalConfig == FinalConfig(config)
        inj == InjectGlobalStyles(W.styleCount)
        parent == ParentOf(W.kids, t)
        k1 == IF parent # NoNode
              THEN InsertBefore(W.kids, parent, Wrapper(i), t)
              ELSE W.kids
        k2 == AppendChild(k1, Wrapper(i), t)
        W1 == InsertStickerDOM([W EXCEPT !.kids = k2, !.styleCount = inj.count],
                               Wrapper(i), Container(i), t)
        observe == hasIntersectionObserver
        dom0 == CreateStickerDOM(ElementSize.width, ElementSize.height)
        dom == IF observe
               THEN [dom0 EXCEPT
                        !.container.opacity = "0",
                        !.container.transition =
                            Transition("opacity", finalConfig.duration, finalConfig.easing)]
               ELSE dom0
        S == [life |-> "live", target |-> t, finalConfig |-> finalConfig,
              animationState |-> InitialAnimationState(finalConfig.direction),
              currentDirection |-> finalConfig.direction,
              savePos |-> None, elementPos |-> None,
              cleanupStyles |-> inj.cleanup, eventsBound |-> TRUE,
              observer |-> [exists |-> observe, observing |-> observe,
                            hasTriggered |-> FALSE],
              timers |-> EmptyBag, dom |-> dom]
    IN [W1 EXCEPT !.instances[i] = S]

UseStickerAnimationInjectFirst(W, i, t, config) ==
    IF ~IsHTMLElement(t)
    THEN [threw |-> TRUE,
          world |-> [W EXCEPT !.styleCount = InjectGlobalStyles(@).count]]
    ELSE [threw |-> FALSE, world |-> ConstructValid(W, i, t, config)]

\* useStickerAnimation(targetElement, config): throws on an invalid target
\* before anything else is done
UseStickerAnimation(W, i, t, config) ==
    IF ~IsHTMLElement(t)
    THEN [threw |-> TRUE, world |-> W]
    ELSE [threw |-> FALSE, world |-> ConstructValid(W, i, t, config)]

\* destroy()
Destroy(W, i) ==
    LET S == W.instances[i]
        t == S.target
        k1 == RemoveNode(W.kids, Container(i))
        wparent == ParentOf(k1, Wrapper(i))
        k2 == IF wparent # NoNode /\ ParentOf(k1, t) = Wrapper(i)
              THEN RemoveNode(InsertBefore(k1, wparent, t, Wrapper(i)), Wrapper(i))
              ELSE k1
    IN [W EXCEPT
           !.styleCount = CleanupStyles(S.cleanupStyles, @),
           !.kids = k2,
           !.display = SetDisplay(@, t, ""),
           !.instances[i] =
               [S EXCEPT !.life = "destroyed",
                         !.eventsBound = FALSE,
                         !.observer.observing = FALSE,
                         !.animationState.phase = "idle",
                         !.animationState.progress = Zero]]

\* a document 'mouseup' whose handlers do not call handleMouseLeave
RunMouseUpOnlyRemoves(insts, listeners) == insts

\* a document 'mouseup': every registered handleMouseUp removes itself and
\* calls handleMouseLeave with the event its move captured
RECURSIVE RunMouseUp(_, _)
RunMouseUp(insts, listeners) ==
    IF listeners = <<>> THEN insts
    ELSE LET l == Head(listeners)
         IN RunMouseUp([insts EXCEPT ![l.inst] = HandleMouseLeave(@, l.e)],
                       Tail(listeners))

-----------------------------------------------------------------------------
(* Auto animation (sticker-animation-auto): pure functions *)
(*                                                                         *)
(* Fixed point stands for the floating-point arithmetic of the code:       *)
(* a progress is an integer number of thousandths (1000 is 1), a shadow    *)
(* progress is counted in 1/2000 (2000 is 1, so that progress * 1.5 is     *)
(* exact), and a length is an integer number of thousandths of a pixel; a  *)
(* product that needs more digits is rounded down.                         *)

Max(a, b) == IF a > b THEN a ELSE b

\* n px as a length
Px(n) == n * 1000

\* ((a * x + b) * x + c) * x, a b c in hundredths, x and the result in
\* thousandths; the intermediate sums are kept in 1/100000
Cubic(a, b, c, x) ==
    LET s1 == a * x + b * 1000
        s2 == (s1 * x) \div 1000 + c * 1000
    IN (s2 * x) \div 100000

\* (3 * a * x + 2 * b) * x + c in 1/100000
CubicSlope(a, b, c, x) ==
    ((3 * a * x + 2000 * b) * x) \div 1000 + c * 1000

\* the Newton-Raphson loop of cubicBezier: i counts the iterations done
RECURSIVE NewtonRaphson(_, _, _, _, _, _)
NewtonRaphson(ax, bx, cx, t, x, i) ==
    IF i >= 4 THEN x
    ELSE LET currentX == Cubic(ax, bx, cx, x)
             currentSlope == CubicSlope(ax, bx, cx, x)
         IN IF Abs(currentX - t) < 1 THEN x
            ELSE NewtonRaphson(ax, bx, cx, t,
                               x - ((currentX - t) * 100000) \div currentSlope, i + 1)

\* cubicBezier(x1, y1, x2, y2, t): control points in hundredths, t in thousandths
CubicBezier(x1, y1, x2, y2, t) ==
    LET cx == 3 * x1
        bx == 3 * (x2 - x1) - cx
        ax == 100 - cx - bx
        cy == 3 * y1
        by == 3 * (y2 - y1) - cy
        ay == 100 - cy - by
        x == NewtonRaphson(ax, bx, cx, t, t, 0)
    IN Cubic(ay, by, cy, x)

ShadowProgressSame(progress) == 2 * progress

\* Math.min(progress * 1.5, 1), progress in thousandths, the result in 1/2000
ShadowProgress(progress) == Min(3 * progress, 2000)

\* calculateAutoAnimationValues(size, direction, progress, shadowIntensity):
\* size in px, progress in thousandths, the lengths of the result in
\* thousandths of a pixel
CalculateAutoAnimationValues(size, direction, progress, shadowIntensity) ==
    LET revealed == size * progress
        shadowProgress == ShadowProgress(progress)
        shadow == (Max(0, revealed - Px(20)) * shadowProgress) \div 2000
        depth == Min((revealed * 3) \div 10, Px(size) \div 5)
    IN CASE direction = "left" ->
              [bx |-> 0, by |-> 0, sx |-> -1, sy |-> 1, bs |-> "shadowL",
               bmx |-> revealed, bmy |-> 0,
               bsw |-> shadow, bsh |-> Px(size), bsx |-> Px(size) - shadow, bsy |-> 0,
               cw |-> IF revealed = 0 THEN Px(1) ELSE revealed, ch |-> Px(size),
               cx |-> 0, cy |-> 0,
               dw |-> depth, dh |-> Px(size),
               dx |-> IF revealed > Px(10) THEN revealed - Px(10) ELSE Px(-10000),
               dy |-> 0]
         [] direction = "right" ->
              [bx |-> 0, by |-> 0, sx |-> -1, sy |-> 1, bs |-> "shadowR",
               bmx |-> -revealed, bmy |-> 0,
               bsw |-> shadow, bsh |-> Px(size), bsx |-> 0, bsy |-> 0,
               cw |-> IF revealed = 0 THEN Px(1) ELSE revealed, ch |-> Px(size),
               cx |-> Px(size) - revealed, cy |-> 0,
               dw |-> depth, dh |-> Px(size),
               dx |-> IF revealed > Px(10) THEN Px(size) - revealed + Px(10) ELSE Px(-10000),
               dy |-> 0]
         [] direction = "top" ->
              [bx |-> 0, by |-> -Px(size) + revealed, sx |-> 1, sy |-> -1, bs |-> "shadowT",
               bmx |-> 0, bmy |-> -Px(size) + revealed,
               bsw |-> Px(size), bsh |-> shadow, bsx |-> 0, bsy |-> Px(size) - shadow,
               cw |-> Px(size), ch |-> Px(size), cx |-> 0, cy |-> 0,
               dw |-> Px(size), dh |-> depth,
               dx |-> 0, dy |-> revealed - Px(10)]
         [] OTHER ->
              [bx |-> 0, by |-> Px(size) - revealed, sx |-> 1, sy |-> -1, bs |-> "shadowB",
               bmx |-> 0, bmy |-> Px(size) - revealed,
               bsw |-> Px(size), bsh |-> shadow, bsx |-> 0, bsy |-> 0,
               cw |-> Px(size), ch |-> Px(size), cx |-> 0, cy |-> 0,
               dw |-> Px(size), dh |-> depth,
               dx |-> 0, dy |-> Px(size) - revealed + Px(10)]

-----------------------------------------------------------------------------
(* Auto animation: createAutoAnimation; A is the closure state *)

\* the size argument, px
AutoSize == 40

\* requestAnimationFrame handles are positive and never reused
FirstFrameId == 1
\* frames requested at most before the model stops delivering them
MaxFrames == MaxAutoDuration + 5

\* Math.min(elapsed / config.duration, 1), duration > 0
AutoProgress(elapsed, duration) ==
    IF elapsed >= duration THEN One ELSE Frac(elapsed, duration)

\* a progress as a number of thousandths
Thousandths(progress) == (1000 * progress.num) \div progress.den

\* cubicBezier(0.23, 1, 0.32, 1, progress) for every progress in thousandths
EasedProgress == [t \in 0..1000 |-> CubicBezier(23, 100, 32, 100, t)]

\* requestAnimationFrame(animate): the handle is stored in animationFrame
RequestAnimationFrame(A) ==
    [A EXCEPT !.animationFrame = Some(A.nextId),
              !.pending = @ \cup {A.nextId},
              !.nextId = @ + 1]

\* cancelAnimationFrame(id): a handle that is not pending is ignored
CancelAnimationFrame(A, id) == [A EXCEPT !.pending = @ \ {id}]

\* if (!startTime) startTime = currentTime: null and 0 are both falsy
AutoStartTimeEveryFrame(startTime, currentTime) == Some(currentTime)

AutoStartTime(startTime, currentTime) ==
    IF startTime = None \/ startTime = Some(0) THEN Some(currentTime) ELSE startTime

\* animate(currentTime), run for the frame request id
Animate(A, id, currentTime) ==
    LET startTime == AutoStartTime(A.startTime, currentTime)
        elapsed == currentTime - startTime[1]
        progress == AutoProgress(elapsed, A.config.duration)
        easedProgress == EasedProgress[Thousandths(progress)]
        peelValues == CalculateAutoAnimationValues(A.size, A.config.direction,
                                                   easedProgress, A.config.shadowIntensity)
        A1 == [A EXCEPT !.pending = @ \ {id},
                        !.startTime = startTime,
                        !.dom = ApplyPeelStyles(@, peelValues, AllZero),
                        !.applied = easedProgress,
                        !.first = IF @ = None THEN Some(currentTime) ELSE @,
                        !.now = Some(currentTime),
                        !.frame = Some([time |-> currentTime, progress |-> progress])]
    IN IF progress # One
       THEN RequestAnimationFrame(A1)
       ELSE [A1 EXCEPT !.isAnimating = FALSE,
                       !.dom.container.filter = DropShadow]

\* start()
AutoStart(A) ==
    IF A.isAnimating THEN A
    ELSE LET initialValues == CalculateAutoAnimationValues(A.size, A.config.direction,
                                                           0, A.config.shadowIntensity)
         IN RequestAnimationFrame(
                [A EXCEPT !.dom = ApplyPeelStyles(@, initialValues, AllZero),
                          !.applied = 0,
                          !.isAnimating = TRUE,
                          !.startTime = None])

AutoStopOnlyFlag(A) == [A EXCEPT !.isAnimating = FALSE, !.stopped = TRUE]

\* stop()
AutoStop(A) ==
    LET A1 == IF A.animationFrame # None
              THEN [CancelAnimationFrame(A, A.animationFrame[1])
                       EXCEPT !.animationFrame = None]
              ELSE A
    IN [A1 EXCEPT !.isAnimating = FALSE, !.stopped = TRUE]

\* no createAutoAnimation call
NoAuto ==
    [life |-> "none", size |-> AutoSize,
     config |-> [duration |-> 1, direction |-> "left", shadowIntensity |-> DefaultShadowIntensity],
     animationFrame |-> None, startTime |-> None, isAnimating |-> FALSE,
     dom |-> CreateStickerDOM(Px(AutoSize), Px(AutoSize)),
     pending |-> {}, nextId |-> FirstFrameId,
     applied |-> 0, first |-> None, now |-> None, frame |-> None, stopped |-> FALSE]

\* createAutoAnimation(domStructure, size, config) up to its return
CreateAutoAnimation(size, config) ==
    AutoStart([NoAuto EXCEPT !.life = "created", !.size = size, !.config = config])

\* a short, an odd and a long duration, ms
AutoDurations == {2, 3, MaxAutoDuration}
AutoConfigs ==
    {[duration |-> d, direction |-> dir, shadowIntensity |-> DefaultShadowIntensity] :
        d \in AutoDurations, dir \in Directions}

\* the timestamps the next frame can carry: any first one, then never less
\* than the one before
FrameTimes(A) ==
    IF A.now = None THEN 0..MaxFirstFrame ELSE A.now[1]..(A.now[1] + MaxFrameStep)

-----------------------------------------------------------------------------
(* Page utilities: the resize listener of the scroll-trigger glue and the   *)
(* computed-style cache; P is the module-level state, times are in ms      *)

\* the delay of the resize timer
ResizeDelay == 250

\* the time that passes in one step of the clock
TimeStep == ResizeDelay \div 5

\* setTimeout(callback, delay): the handle is the next unused one
PageSetTimeout(P, kind, key, delay) ==
    [P EXCEPT !.timeouts = @ \cup {[id |-> P.nextTimeout, kind |-> kind, key |-> key,
                                    remaining |-> delay]},
              !.nextTimeout = @ + 1]

\* clearTimeout(handle): undefined and a handle that is not pending are ignored
PageClearTimeout(P, handle) ==
    IF handle = None THEN P
    ELSE [P EXCEPT !.timeouts = {t \in @ : t.id # handle[1]}]

\* a resize listener that does not clear the pending timer
OnResizeNoClear(P) ==
    [PageSetTimeout(P, "refresh", "", ResizeDelay)
        EXCEPT !.resizeTimer = Some(P.nextTimeout),
               !.quiet = Some(0),
               !.burstRefreshes = 0,
               !.op = "resize"]

\* the 'resize' listener: clearTimeout(resizeTimer); resizeTimer = setTimeout(...)
OnResize(P) ==
    LET P1 == PageClearTimeout(P, P.resizeTimer)
    IN [PageSetTimeout(P1, "refresh", "", ResizeDelay)
           EXCEPT !.resizeTimer = Some(P1.nextTimeout),
                  !.quiet = Some(0),
                  !.burstRefreshes = 0,
                  !.op = "resize"]

\* refreshScrollTriggers(): ScrollTrigger.refresh()
RefreshScrollTriggers(P) ==
    [P EXCEPT !.refreshes = @ + 1, !.burstRefreshes = @ + 1]

\* the ids under which triggers are registered
TriggerIds == {"hero", "footer"}

\* trigger.kill(): killing a killed trigger again changes nothing
KillTrigger(P, trigger) == [P EXCEPT !.killed = @ \cup {trigger}]

\* createManagedScrollTrigger(id, config); created tells whether
\* ScrollTrigger.create returned a trigger or threw
CreateManagedScrollTrigger(P, id, created) ==
    LET P1 == IF P.scrollTriggers[id] # None
              THEN KillTrigger(P, P.scrollTriggers[id][1])
              ELSE P
    IN IF created
       THEN [P1 EXCEPT !.scrollTriggers[id] = Some(P.nextTrigger),
                       !.nextTrigger = @ + 1,
                       !.result = Some(P.nextTrigger),
                       !.op = "create"]
       ELSE [P1 EXCEPT !.result = None, !.op = "create"]

\* killScrollTrigger(id)
KillScrollTrigger(P, id) ==
    IF P.scrollTriggers[id] # None
    THEN [KillTrigger(P, P.scrollTriggers[id][1])
             EXCEPT !.scrollTriggers[id] = None, !.op = "kill"]
    ELSE [P EXCEPT !.op = "kill"]

\* killAllScrollTriggers(): forEach kill, then clear
KillAllScrollTriggers(P) ==
    [P EXCEPT !.killed = @ \cup {P.scrollTriggers[id][1] :
                                    id \in {k \in TriggerIds : P.scrollTriggers[k] # None}},
              !.scrollTriggers = [id \in TriggerIds |-> None],
              !.op = "killAll"]

\* the delay after which a cache entry is deleted
CacheLifetime == 1000

\* elements handed to the cache: two that have no id and the same class,
\* and one with an id; name tells the elements apart
CacheElements ==
    {[name |-> "a", id |-> "", className |-> "card"],
     [name |-> "b", id |-> "", className |-> "card"],
     [name |-> "hero", id |-> "hero", className |-> "card"]}

\* a key that no two elements share
KeyOfElement(element) == element.name

\* element.id || element.className: the empty id is falsy
KeyOf(element) == IF element.id # "" THEN element.id ELSE element.className

CacheKeys == {KeyOf(element) : element \in CacheElements}

\* window.getComputedStyle(element): the element's own style object
GetComputedStyle(element) == element.name

\* getCachedComputedStyle(element); the style object returned is recorded
GetCachedComputedStyle(P, element) ==
    LET id == KeyOf(element)
    IN IF P.styleCache[id] # None
       THEN [P EXCEPT !.returned = Some([element |-> element.name,
                                         style |-> P.styleCache[id][1]]),
                      !.op = "get"]
       ELSE LET computedStyle == GetComputedStyle(element)
            IN [PageSetTimeout(P, "evict", id, CacheLifetime)
                   EXCEPT !.styleCache[id] = Some(computedStyle),
                          !.stored[id] = Some([by |-> element.name, ago |-> 0]),
                          !.returned = Some([element |-> element.name,
                                             style |-> computedStyle]),
                          !.op = "get"]

\* the callback of a timeout of the page utilities
RunPageTimeout(P, t) ==
    LET P1 == [P EXCEPT !.timeouts = @ \ {t}, !.op = t.kind]
    IN IF t.kind = "refresh" THEN RefreshScrollTriggers(P1)
       ELSE [P1 EXCEPT !.styleCache[t.key] = None]

\* dt ms pass: every pending timeout comes closer
PassTime(P, dt) ==
    [P EXCEPT !.timeouts = {[t EXCEPT !.remaining = @ - dt] : t \in @},
              !.quiet = IF @ = None THEN None ELSE Some(Min(@[1] + dt, ResizeDelay)),
              !.stored = [k \in CacheKeys |->
                             IF @[k] = None THEN None
                             ELSE Some([@[k][1] EXCEPT
                                           !.ago = Min(@ + dt, CacheLifetime)])],
              !.op = "time"]

\* the page utilities after module load: no resize seen, an empty cache,
\* an empty registry, nothing pending
NoPage ==
    [resizeTimer |-> None, timeouts |-> {}, nextTimeout |-> 1, refreshes |-> 0,
     styleCache |-> [k \in CacheKeys |-> None],
     quiet |-> None, burstRefreshes |-> 0,
     stored |-> [k \in CacheKeys |-> None], returned |-> None,
     scrollTriggers |-> [id \in TriggerIds |-> None], killed |-> {},
     nextTrigger |-> 1, result |-> None, op |-> "load"]

-----------------------------------------------------------------------------
(* Inputs *)

NoConfig == [f \in {} |-> 0]
DelayedConfig == [delay |-> JsNum(50)]

DurationInputs == {NaN, JsNum(-5), JsNum(0), JsNum(1), JsNum(300), JsNum(800)}
ShadowInputs == {NaN, JsNum(-1), JsNum(0), JsNum(5), JsNum(10), JsNum(11), JsNum(15)}
ConfigInputs ==
    {NoConfig} \cup
    {[duration |-> d, shadowIntensity |-> s] : d \in DurationInputs, s \in ShadowInputs}

Offset(tx, ty) == [pageX |-> ContainerOrigin.x + tx, pageY |-> ContainerOrigin.y + ty]
\* pointer positions: inside each quadrant band, and outside the box
PointerSamples == {Offset(-25, 50), Offset(75, 10), Offset(75, 75), Offset(175, 50)}
\* new MouseEvent('mouseleave', {}): pageX = pageY = 0
EmptyMouseEvent == [pageX |-> 0, pageY |-> 0]

\* a pointer that enters at offset (10, 10) and travels along y = 10 to (150, 10)
ScenarioStart == Offset(10, 10)
ScenarioEnd == Offset(150, 10)
ScenarioSamples == {ScenarioStart, Offset(50, 10), Offset(100, 10), ScenarioEnd}

-----------------------------------------------------------------------------
(* Actions *)

Commit(W) ==
    /\ kids' = W.kids
    /\ display' = W.display
    /\ styleCount' = W.styleCount
    /\ instances' = W.instances
    /\ docMouseUp' = W.docMouseUp

Called(op, i) ==
    call' = [op |-> op, inst |-> i, target |-> NoNode, config |-> NoConfig,
             threw |-> FALSE]

Document == <<kids, display, styleCount>>

Construct(i, t, config) ==
    /\ instances[i].life = "none"
    /\ LET r == UseStickerAnimation(World, i, t, config)
       IN /\ Commit(r.world)
          /\ call' = [op |-> "construct", inst |-> i, target |-> t,
                      config |-> config, threw |-> r.threw]
          /\ snap' = IF r.threw THEN None
                     ELSE Some([inst |-> i, kids |-> kids, display |-> display])
    /\ UNCHANGED <<hasIntersectionObserver, auto, page>>

CallDestroy(i) ==
    /\ instances[i].life # "none"
    /\ Commit(Destroy(World, i))
    /\ Called("destroy", i)
    /\ snap' = IF call.op = "construct" /\ call.inst = i /\ ~call.threw THEN snap ELSE None
    /\ UNCHANGED <<hasIntersectionObserver, auto, page>>

CallReset(i) ==
    /\ instances[i].life # "none"
    /\ instances' = [instances EXCEPT ![i] = Reset(@)]
    /\ Called("reset", i)
    /\ snap' = None
    /\ UNCHANGED <<Document, docMouseUp, hasIntersectionObserver, auto, page>>

CallTrigger(i) ==
    /\ instances[i].life # "none"
    /\ instances' = [instances EXCEPT ![i] = Trigger(@)]
    /\ Called("trigger", i)
    /\ snap' = None
    /\ UNCHANGED <<Document, docMouseUp, hasIntersectionObserver, auto, page>>

\* container 'mouseenter', and 'touchstart' with the first touch's page position
OnEnter(i, e) ==
    /\ instances[i].eventsBound
    /\ instances' = [instances EXCEPT ![i] = HandleMouseEnter(@, e)]
    /\ Called("event", i)
    /\ snap' = None
    /\ UNCHANGED <<Document, docMouseUp, hasIntersectionObserver, auto, page>>

LeaveAllowed(S) == S.savePos = None \/ BagCardinality(S.timers) < MaxTimers

\* container 'mouseleave' (e a pointer position), and 'touchend' (e empty)
OnLeave(i, e) ==
    /\ instances[i].eventsBound
    /\ LeaveAllowed(instances[i])
    /\ instances' = [instances EXCEPT ![i] = HandleMouseLeave(@, e)]
    /\ Called("event", i)
    /\ snap' = None
    /\ UNCHANGED <<Document, docMouseUp, hasIntersectionObserver, auto, page>>

\* container 'mousemove', and 'touchmove' with the first touch's page position
OnMove(i, e) ==
    /\ instances[i].eventsBound
    /\ LET r == HandleMouseMove(instances[i], e)
       IN /\ r.listen => Len(docMouseUp) < MaxMouseUp
          /\ instances' = [instances EXCEPT ![i] = r.inst]
          /\ docMouseUp' = IF r.listen
                           THEN Append(docMouseUp, [inst |-> i, e |-> e])
                           ELSE docMouseUp
    /\ Called("event", i)
    /\ snap' = None
    /\ UNCHANGED <<Document, hasIntersectionObserver, auto, page>>

DocumentMouseUp ==
    /\ docMouseUp # <<>>
    /\ \A n \in DOMAIN docMouseUp : LeaveAllowed(instances[docMouseUp[n].inst])
    /\ instances' = RunMouseUp(instances, docMouseUp)
    /\ docMouseUp' = <<>>
    /\ Called("mouseup", docMouseUp[1].inst)
    /\ snap' = None
    /\ UNCHANGED <<Document, hasIntersectionObserver, auto, page>>

IntersectionCallback(i, isIntersecting) ==
    /\ instances[i].observer.observing
    /\ BagCardinality(instances[i].timers) < MaxTimers
    /\ instances' = [instances EXCEPT ![i] = OnIntersection(@, isIntersecting)]
    /\ Called("event", i)
    /\ snap' = None
    /\ UNCHANGED <<Document, docMouseUp, hasIntersectionObserver, auto, page>>

\* a pending timeout of the instance comes due
TimeoutFires(i, timer) ==
    /\ BagIn(timer, instances[i].timers)
    /\ instances' = [instances EXCEPT ![i] =
           RunTimer([@ EXCEPT !.timers = @ (-) SetToBag({timer})], timer.kind)]
    /\ Called("event", i)
    /\ snap' = None
    /\ UNCHANGED <<Document, docMouseUp, hasIntersectionObserver, auto, page>>

Sticker == <<kids, display, styleCount, instances, docMouseUp,
             hasIntersectionObserver, call, snap>>

\* the browser runs a requested animation frame with timestamp currentTime
AnimationFrame(id, currentTime) ==
    /\ id \in auto.pending
    /\ auto.nextId <= MaxFrames
    /\ auto' = Animate(auto, id, currentTime)
    /\ UNCHANGED <<Sticker, page>>

\* the host calls the returned stop function
CallAutoStop ==
    /\ auto.life = "created"
    /\ auto' = AutoStop(auto)
    /\ UNCHANGED <<Sticker, page>>

\* window 'resize'
Resize ==
    /\ page.nextTimeout <= MaxTimeouts
    /\ page' = OnResize(page)
    /\ UNCHANGED <<Sticker, auto>>

\* some code asks for the computed style of an element
CallGetCachedComputedStyle(element) ==
    /\ page.styleCache[KeyOf(element)] = None => page.nextTimeout <= MaxTimeouts
    /\ page' = GetCachedComputedStyle(page, element)
    /\ UNCHANGED <<Sticker, auto>>

\* a timeout of the page utilities is due and its callback runs
PageTimeoutFires(t) ==
    /\ t \in page.timeouts
    /\ t.remaining = 0
    /\ page' = RunPageTimeout(page, t)
    /\ UNCHANGED <<Sticker, auto>>

\* the clock advances, never past a timeout that is due
TimePasses ==
    /\ \A t \in page.timeouts : t.remaining >= TimeStep
    /\ page' = PassTime(page, TimeStep)
    /\ UNCHANGED <<Sticker, auto>>

\* some code registers a trigger under an id; ScrollTrigger.create may throw
CallCreateManagedScrollTrigger(id, created) ==
    /\ created => page.nextTrigger <= MaxTriggers
    /\ page' = CreateManagedScrollTrigger(page, id, created)
    /\ UNCHANGED <<Sticker, auto>>

\* some code removes the trigger registered under an id
CallKillScrollTrigger(id) ==
    /\ page' = KillScrollTrigger(page, id)
    /\ UNCHANGED <<Sticker, auto>>

\* document 'astro:before-swap', or a direct call of killAllScrollTriggers
BeforeSwap ==
    /\ page' = KillAllScrollTriggers(page)
    /\ UNCHANGED <<Sticker, auto>>

-----------------------------------------------------------------------------
(* Specifications *)

InitialDisplays ==
    {[t \in Elements |-> IF t = Target(1) THEN d ELSE ""] : d \in {"", "block"}}

InitWith(displays) ==
    /\ kids = [p \in ParentNodes |-> IF p = Body THEN InitialBody ELSE <<>>]
    /\ display \in displays
    /\ styleCount = 0
    /\ instances = [i \in Instances |-> NoInstance]
    /\ docMouseUp = <<>>
    /\ hasIntersectionObserver \in BOOLEAN
    /\ call = [op |-> "init", inst |-> Solo, target |-> NoNode, config |-> NoConfig,
               threw |-> FALSE]
    /\ snap = None

\* the host applies the effect to an element that carries no live sticker
Fresh(t) == \A j \in Instances : instances[j].life = "live" => instances[j].target # t

Init == InitWith({[t \in Elements |-> ""]}) /\ auto = NoAuto /\ page = NoPage
InitAnyDisplay == InitWith(InitialDisplays) /\ auto = NoAuto /\ page = NoPage

\* several instances constructed and destroyed in any interleaving
NextLife ==
    \/ \E i \in Instances, t \in TargetInputs : Fresh(t) /\ Construct(i, t, NoConfig)
    \/ \E i \in Instances : CallDestroy(i)

SpecLife == InitAnyDisplay /\ [][NextLife]_vars

\* one instance constructed with any configuration
NextConfig ==
    \/ \E t \in TargetInputs, c \in ConfigInputs : Fresh(t) /\ Construct(Solo, t, c)
    \/ CallDestroy(Solo)

SpecConfig == InitAnyDisplay /\ [][NextConfig]_vars

\* one instance with a reveal delay: the visibility trigger and its timer
NextVisibility ==
    \/ \E c \in {NoConfig, DelayedConfig} : Construct(Solo, Target(1), c)
    \/ \E b \in BOOLEAN : IntersectionCallback(Solo, b)
    \/ \E timer \in BagToSet(instances[Solo].timers) : TimeoutFires(Solo, timer)
    \/ \E e \in PointerSamples : OnEnter(Solo, e)
    \/ \E e \in PointerSamples : OnLeave(Solo, e)
    \/ CallReset(Solo)
    \/ CallTrigger(Solo)
    \/ CallDestroy(Solo)

SpecVisibility == Init /\ [][NextVisibility]_vars

\* one instance on an attached target, driven by pointer, touch, document,
\* observer and timer events and by the host's control calls
Next ==
    \/ Construct(Solo, Target(1), NoConfig)
    \/ \E e \in PointerSamples : OnEnter(Solo, e)
    \/ \E e \in PointerSamples \cup {EmptyMouseEvent} : OnLeave(Solo, e)
    \/ \E e \in PointerSamples : OnMove(Solo, e)
    \/ DocumentMouseUp
    \/ \E b \in BOOLEAN : IntersectionCallback(Solo, b)
    \/ \E timer \in BagToSet(instances[Solo].timers) : TimeoutFires(Solo, timer)
    \/ CallReset(Solo)
    \/ CallTrigger(Solo)
    \/ CallDestroy(Solo)

Spec == Init /\ [][Next]_vars

\* one instance and its pointer session only: enter, move, leave, the
\* document mouseup of a bare move, and the drop-shadow timeout
NextSession ==
    \/ Construct(Solo, Target(1), NoConfig)
    \/ \E e \in PointerSamples : OnEnter(Solo, e)
    \/ \E e \in PointerSamples \cup {EmptyMouseEvent} : OnLeave(Solo, e)
    \/ \E e \in PointerSamples : OnMove(Solo, e)
    \/ DocumentMouseUp
    \/ \E timer \in BagToSet(instances[Solo].timers) : TimeoutFires(Solo, timer)

\* the visibility trigger plays no part in the session: it is set up
InitSession == Init /\ hasIntersectionObserver

SpecSession == InitSession /\ [][NextSession]_vars

\* one auto animation after createAutoAnimation returned: frames with
\* non-decreasing timestamps, and stop() at any moment
InitAuto ==
    /\ InitWith({[t \in Elements |-> ""]})
    /\ hasIntersectionObserver
    /\ auto \in {CreateAutoAnimation(AutoSize, c) : c \in AutoConfigs}
    /\ page = NoPage

NextAuto ==
    \/ \E id \in auto.pending, t \in FrameTimes(auto) : AnimationFrame(id, t)
    \/ CallAutoStop

SpecAuto == InitAuto /\ [][NextAuto]_vars

\* a frame whose timestamp is later than the one before
AdvancingFrame ==
    \E id \in auto.pending, t \in FrameTimes(auto) :
        /\ auto.now # None => t > auto.now[1]
        /\ AnimationFrame(id, t)

NextAutoAdvancing ==
    \/ AdvancingFrame
    \/ CallAutoStop

\* the browser keeps delivering the requested frames, each later than the last
SpecAutoFair == InitAuto /\ [][NextAutoAdvancing]_vars /\ WF_vars(AdvancingFrame)

\* the pointer session of one instance whose pointer stays on the line
\* y = 10 of the element
NextScenario ==
    \/ Construct(Solo, Target(1), NoConfig)
    \/ \E e \in ScenarioSamples : OnEnter(Solo, e)
    \/ \E e \in ScenarioSamples : OnLeave(Solo, e)
    \/ \E e \in ScenarioSamples : OnMove(Solo, e)
    \/ DocumentMouseUp
    \/ \E timer \in BagToSet(instances[Solo].timers) : TimeoutFires(Solo, timer)

SpecScenario == InitSession /\ [][NextScenario]_vars

\* the two drivers of the layers, each on its own: the pointer session of one
\* instance, or one auto animation (the two share no state)
InitDrivers == InitSession \/ InitAuto

NextDrivers ==
    \/ auto.life = "none" /\ NextSession
    \/ NextAuto

SpecDrivers == InitDrivers /\ [][NextDrivers]_vars

\* the window is resized at any moments
NextResize ==
    \/ Resize
    \/ \E t \in page.timeouts : PageTimeoutFires(t)
    \/ TimePasses

\* the sticker plays no part here
InitPage == Init /\ hasIntersectionObserver

SpecResize == InitPage /\ [][NextResize]_vars

\* computed styles are asked for at any moments
NextCache ==
    \/ \E element \in CacheElements : CallGetCachedComputedStyle(element)
    \/ \E t \in page.timeouts : PageTimeoutFires(t)
    \/ TimePasses

SpecCache == InitPage /\ [][NextCache]_vars

\* triggers are registered and removed at any moments
NextTriggers ==
    \/ \E id \in TriggerIds, created \in BOOLEAN :
          CallCreateManagedScrollTrigger(id, created)
    \/ \E id \in TriggerIds : CallKillScrollTrigger(id)
    \/ BeforeSwap

SpecTriggers == InitPage /\ [][NextTriggers]_vars

-----------------------------------------------------------------------------
(* Properties *)

Phase(i) == instances[i].animationState.phase
Live(i) == instances[i].life = "live"
Destroyed(i) == instances[i].life = "destroyed"
SessionActive(i) == instances[i].savePos # None

\* a step that runs handleMouseEnter: mouseenter, touchstart, or a bare move
EnterStep(i) ==
    \/ \E e \in PointerSamples : OnEnter(i, e)
    \/ /\ ~SessionActive(i)
       /\ \E e \in PointerSamples : OnMove(i, e)

\* a step that runs handleMouseLeave: mouseleave, touchend, document mouseup
LeaveStep(i) ==
    \/ \E e \in PointerSamples \cup {EmptyMouseEvent} : OnLeave(i, e)
    \/ DocumentMouseUp

\* C1: the phase follows the stated lifecycle over any sequence of events: it
\* is never 'paused'; it becomes 'peeling' only by an enter (also the one a
\* bare move synthesizes) or by trigger; it becomes 'stuck' only by a leave
\* and only directly from 'peeling'; it returns to 'idle' only by reset or
\* destroy.
C1_PhaseLifecycle ==
    [][\A i \in Instances :
          /\ Phase(i)' # "paused"
          /\ (Phase(i)' # Phase(i) /\ Phase(i)' = "peeling")
                => (EnterStep(i) \/ CallTrigger(i))
          /\ (Phase(i)' # Phase(i) /\ Phase(i)' = "stuck")
                => (LeaveStep(i) /\ Phase(i) = "peeling")
          /\ (Phase(i)' # Phase(i) /\ Phase(i)' = "idle")
                => (CallReset(i) \/ CallDestroy(i))]_vars

\* what of an instance a handler can change: phase and progress, the session
\* state, the styles written to the layers, and its pending timeouts
Observable(i) ==
    <<instances[i].animationState, instances[i].savePos, instances[i].elementPos,
      instances[i].currentDirection, instances[i].dom, instances[i].timers>>

\* a step taken by a DOM event, an observer callback or a timeout
EventStep(i) ==
    \/ \E e \in PointerSamples : OnEnter(i, e) \/ OnMove(i, e)
    \/ LeaveStep(i)
    \/ \E b \in BOOLEAN : IntersectionCallback(i, b)
    \/ \E timer \in BagToSet(instances[i].timers) : TimeoutFires(i, timer)

\* C2: destroy() tears down every listener, observer and timer: once the
\* instance is destroyed, no container event, document mouseup, intersection
\* callback or timeout changes its phase, progress or session state or writes
\* a style, and no such event moves the phase away from 'idle'.
C2_DestroyTearsDown ==
    [][\A i \in Instances :
          (Destroyed(i) /\ EventStep(i))
             => /\ Observable(i)' = Observable(i)
                /\ (Phase(i) = "idle" => Phase(i)' = "idle")]_vars

\* C3: constructing an instance on an attached element and immediately
\* destroying it restores the DOM: the same tree (same parent and sibling
\* position of the target, no wrapper and no sticker container left) and the
\* same inline display of the target as before the construction.
C3_RoundTrip ==
    (call.op = "destroy" /\ snap # None)
       => LET before == snap[1]
              t == instances[before.inst].target
          IN InDocument(before.kids, t)
                => /\ kids = before.kids
                   /\ display[t] = before.display[t]
                   /\ ~InDocument(kids, Wrapper(before.inst))
                   /\ ~InDocument(kids, Container(before.inst))

\* C4: destroy() is idempotent in any interleaving with other instances: a
\* destroy() of an instance that is already destroyed leaves the document,
\* the shared stylesheet and every other instance as they are.
C4_DestroyIdempotent ==
    [][\A i \in Instances :
          (Destroyed(i) /\ call'.op = "destroy" /\ call'.inst = i /\ CallDestroy(i))
             => /\ UNCHANGED <<kids, display, styleCount>>
                /\ \A j \in Instances \ {i} : instances'[j] = instances[j]]_vars

\* C5: the shared stylesheet is removed only when the last consumer goes
\* away: while some constructed instance is not destroyed, the style element
\* is in the document.
C5_StylesheetWhileLive ==
    (\E i \in Instances : Live(i)) => styleCount >= 1

\* C6: the injected stylesheet is a singleton: the document never holds more
\* than one style element with id 'sticker-animation-styles'.
C6_StylesheetSingleton == styleCount <= 1

\* C6 witness: two live instances share one style element
C6_TwoInstancesOneStyle ==
    /\ styleCount = 1
    /\ Cardinality({i \in Instances : Live(i)}) >= 2

\* C7 as stated: construction throws for a null or non-element target and
\* for an element that is attached to no document.
C7_ThrowsUnlessAttached ==
    (call.op = "construct"
        /\ call.target \in {NullTarget, NotElement, DetachedTarget})
       => call.threw

\* C7 amended: construction throws exactly when the target is null or not an
\* HTMLElement; a detached element is accepted and an instance is returned,
\* its wrapper holding the sticker container and the target outside the
\* document.
C7_ThrowsIffNotElement ==
    call.op = "construct"
       => /\ call.threw <=> call.target \in {NullTarget, NotElement}
          /\ call.target = DetachedTarget
                => /\ Live(call.inst)
                   /\ kids[Wrapper(call.inst)] = <<Container(call.inst), DetachedTarget>>
                   /\ ~InDocument(kids, Wrapper(call.inst))

\* C7 witness: a construction on a detached element has returned an instance
C7_DetachedAccepted ==
    /\ call.op = "construct"
    /\ call.target = DetachedTarget
    /\ ~call.threw
    /\ Live(call.inst)

C9_EffectiveConfig ==
    (call.op = "construct" /\ ~call.threw)
       => LET given == MergeConfig(call.config)
              final == instances[call.inst].finalConfig
          IN /\ JsLe(given.duration, JsNum(0)) => final.duration = JsNum(DefaultDuration)
             /\ JsGt(given.duration, JsNum(0)) => final.duration = given.duration
             /\ (JsLt(given.shadowIntensity, JsNum(0))
                   \/ JsGt(given.shadowIntensity, JsNum(10)))
                   => final.shadowIntensity = JsNum(DefaultShadowIntensity)
             /\ (JsLe(JsNum(0), given.shadowIntensity)
                   /\ JsLe(given.shadowIntensity, JsNum(10)))
                   => final.shadowIntensity = given.shadowIntensity
             /\ JsGt(final.duration, JsNum(0))
             /\ JsLe(JsNum(0), final.shadowIntensity)
             /\ JsLe(final.shadowIntensity, JsNum(10))

\* the shadow class tag calculatePeelValues gives a direction
ShadowTag(direction) ==
    CASE direction = "left" -> "shadowL"
      [] direction = "right" -> "shadowR"
      [] direction = "top" -> "shadowT"
      [] OTHER -> "shadowB"

\* C10: one direction per session, not mutated mid-peel: while a session
\* stays active (from the event that starts it to the leave that ends it) no
\* move, enter, touch, reset or trigger changes the current direction, and
\* the session's geometry is computed for that direction.
C10_DirectionFixed ==
    [][\A i \in Instances :
          (SessionActive(i) /\ SessionActive(i)')
             => /\ instances'[i].currentDirection = instances[i].currentDirection
                /\ instances'[i].savePos[1].bs
                      = ShadowTag(instances'[i].currentDirection)]_vars

-----------------------------------------------------------------------------
(* Direction classifier *)

\* the quadrant rule for offset (tx, ty) in a width x height element, with
\* q = min(width, height) / 4 and both sides of each comparison times four
Quadrant(tx, ty, width, height) ==
    LET q4 == Min(width, height)
    IN CASE 4 * tx < q4 -> "left"
         [] 4 * tx >= q4 /\ 4 * tx > 3 * q4 -> "right"
         [] 4 * tx >= q4 /\ 4 * tx <= 3 * q4 /\ 4 * ty < q4 -> "top"
         [] 4 * tx >= q4 /\ 4 * tx <= 3 * q4 /\ 4 * ty >= q4 -> "bottom"

\* offsets over and around the element, every band and every band edge
OffsetGrid ==
    {<<tx, ty>> : tx \in -2..(ElementSize.width + 2), ty \in -2..(ElementSize.height + 2)}

SquareOrigin == [x |-> 30, y |-> 70]
At(origin, tx, ty) == [pageX |-> origin.x + tx, pageY |-> origin.y + ty]

\* getDirection agrees with the quadrant rule on every offset of the grid
GridAgrees ==
    \A o \in OffsetGrid :
       GetDirection(Offset(o[1], o[2]), ContainerOrigin,
                    Min(ElementSize.width, ElementSize.height))
          = Quadrant(o[1], o[2], ElementSize.width, ElementSize.height)

\* the four offsets of a 400x400 element
SquareExamples ==
    /\ GetDirection(At(SquareOrigin, 50, 50), SquareOrigin, 400) = "left"
    /\ GetDirection(At(SquareOrigin, 350, 50), SquareOrigin, 400) = "right"
    /\ GetDirection(At(SquareOrigin, 200, 50), SquareOrigin, 400) = "top"
    /\ GetDirection(At(SquareOrigin, 200, 350), SquareOrigin, 400) = "bottom"

\* C11: getDirection is the quadrant function with horizontal priority for
\* every offset (left if tx < q, else right if tx > 3q, else top if ty < q,
\* else bottom, q = min(width, height) / 4); for 400x400 it gives (50,50) ->
\* left, (350,50) -> right, (200,50) -> top, (200,350) -> bottom; and the
\* direction of a session started by an enter, a touchstart or a bare move at
\* an offset is the quadrant of that offset.
C11_QuadrantDirection ==
    [][/\ GridAgrees
       /\ SquareExamples
       /\ \A i \in Instances, e \in PointerSamples :
             (OnEnter(i, e) \/ (~SessionActive(i) /\ OnMove(i, e)))
                => LET d == Quadrant(e.pageX - ContainerOrigin.x,
                                     e.pageY - ContainerOrigin.y,
                                     ElementSize.width, ElementSize.height)
                   IN /\ instances'[i].currentDirection = d
                      /\ instances'[i].animationState.direction = d
                      /\ instances'[i].savePos[1].bs = ShadowTag(d)]_vars

\* C11 witness: a session is active whose direction the classifier set to a
\* band other than the configured default
C11_SessionTop ==
    /\ SessionActive(Solo)
    /\ Phase(Solo) = "peeling"
    /\ instances[Solo].currentDirection = "top"
    /\ instances[Solo].savePos[1].bs = "shadowT"

-----------------------------------------------------------------------------
(* Leave *)

\* the back-face translation that retracts the back face off the element
Retracted(direction) ==
    CASE direction = "left" -> <<-ElementSize.width, 0>>
      [] direction = "right" -> <<ElementSize.width, 0>>
      [] direction = "top" -> <<0, -ElementSize.height>>
      [] direction = "bottom" -> <<0, ElementSize.height>>

DropShadowTimer(i) ==
    [kind |-> "dropShadow", delay |-> instances[i].finalConfig.duration]

\* C12: a leave event arriving while a session is active applies the
\* snap-back geometry (back face retracted by the session's direction, mask
\* at full element size with offset (0,0), depth shadow at (-10000,-10000))
\* with the transition 'all <duration>ms <easing>', sets phase = 'stuck',
\* clears the session and schedules exactly one drop-shadow write after
\* <duration> ms; a leave with no active session changes nothing.
C12_LeaveSnapsBack ==
    [][\A i \in Instances, e \in PointerSamples \cup {EmptyMouseEvent} :
          OnLeave(i, e)
             => IF SessionActive(i)
                THEN LET c == instances[i].finalConfig
                         t == Transition("all", c.duration, c.easing)
                         dom == instances'[i].dom
                     IN /\ dom.back.transform = Retracted(instances[i].currentDirection)
                        /\ dom.mask.width = ElementSize.width
                        /\ dom.mask.height = ElementSize.height
                        /\ dom.mask.transform = <<0, 0>>
                        /\ dom.depth.transform = <<-10000, -10000>>
                        /\ dom.mask.transition = t
                        /\ dom.move.transition = t
                        /\ dom.back.transition = t
                        /\ Phase(i)' = "stuck"
                        /\ ~SessionActive(i)'
                        /\ instances'[i].timers
                              = instances[i].timers (+) SetToBag({DropShadowTimer(i)})
                        /\ instances'[i].dom.container = instances[i].dom.container
                        /\ UNCHANGED <<kids, display, styleCount, docMouseUp>>
                ELSE UNCHANGED <<kids, display, styleCount, instances, docMouseUp>>]_vars

\* C12 witness: a leave has ended a session that peeled from the top
C12_StuckAfterLeave ==
    /\ Phase(Solo) = "stuck"
    /\ ~SessionActive(Solo)
    /\ instances[Solo].currentDirection = "top"
    /\ instances[Solo].dom.back.transform = <<0, -ElementSize.height>>
    /\ instances[Solo].dom.depth.transform = <<-10000, -10000>>
    /\ BagCardinality(instances[Solo].timers) = 1
    /\ BagIn(DropShadowTimer(Solo), instances[Solo].timers)

-----------------------------------------------------------------------------
(* Bare move and document mouseup *)

\* the instances that have a handleMouseUp registered on document
Listening == {docMouseUp[n].inst : n \in DOMAIN docMouseUp}

\* C13: a move observed while no session is active starts a session as an
\* enter would (direction of the offset, phase 'peeling', the enter's styles)
\* and registers one document mouseup listener, while a move within a session
\* registers none; at the next document mouseup every session of a listening
\* instance ends in phase 'stuck' without any leave on the element, and every
\* listener that ran is no longer registered.
C13_BareMoveResolves ==
    [][/\ \A i \in Instances, e \in PointerSamples :
             OnMove(i, e)
                => IF SessionActive(i)
                   THEN docMouseUp' = docMouseUp
                   ELSE /\ SessionActive(i)'
                        /\ Phase(i)' = "peeling"
                        /\ instances'[i].savePos = HandleMouseEnter(instances[i], e).savePos
                        /\ instances'[i].currentDirection
                              = Quadrant(e.pageX - ContainerOrigin.x,
                                         e.pageY - ContainerOrigin.y,
                                         ElementSize.width, ElementSize.height)
                        /\ instances'[i].dom = HandleMouseEnter(instances[i], e).dom
                        /\ docMouseUp' = Append(docMouseUp, [inst |-> i, e |-> e])
       /\ DocumentMouseUp
             => /\ docMouseUp' = <<>>
                /\ \A i \in Listening :
                      /\ ~SessionActive(i)'
                      /\ SessionActive(i)
                            => /\ Phase(i)' = "stuck"
                               /\ instances'[i].dom.back.transform
                                     = Retracted(instances[i].currentDirection)
                /\ \A i \in Instances \ Listening : instances'[i] = instances[i]]_vars

\* C13 witness: a document mouseup has ended a session that a bare move
\* started, and no listener is left
C13_MouseUpEndedSession ==
    /\ docMouseUp = <<>>
    /\ Phase(Solo) = "stuck"
    /\ ~SessionActive(Solo)
    /\ call.op = "mouseup"
    /\ instances[Solo].dom.back.transform = <<ElementSize.width, 0>>

-----------------------------------------------------------------------------
(* Control methods *)

\* everything of an instance but its animation state
Rest(S) == [f \in DOMAIN S \ {"animationState"} |-> S[f]]

\* C14: trigger() sets phase to 'peeling' and restarts startTime exactly when
\* the phase is 'idle' or 'stuck' and is otherwise a no-op; in both cases
\* progress, the direction, the session state, the applied styles, the timers
\* and the DOM are unchanged, and a second trigger() right after changes
\* nothing.
C14_TriggerFrame ==
    [][\A i \in Instances :
          CallTrigger(i)
             => LET old == instances[i].animationState
                    new == instances'[i].animationState
                IN /\ IF old.phase \in {"idle", "stuck"}
                      THEN new.phase = "peeling" /\ new.startTime = "Date.now()"
                      ELSE new = old
                   /\ new.progress = old.progress
                   /\ new.direction = old.direction
                   /\ new.currentTransform = old.currentTransform
                   /\ Rest(instances'[i]) = Rest(instances[i])
                   /\ \A j \in Instances \ {i} : instances'[j] = instances[j]
                   /\ UNCHANGED <<kids, display, styleCount, docMouseUp>>
                   /\ Trigger(instances'[i]) = instances'[i]]_vars

\* C14 witness: trigger() has moved a stuck sticker to 'peeling' (no session
\* is active and the progress is the one the leave left)
C14_TriggeredFromStuck ==
    /\ call.op = "trigger"
    /\ Phase(Solo) = "peeling"
    /\ ~SessionActive(Solo)
    /\ instances[Solo].animationState.progress = One
    /\ instances[Solo].elementPos # None

\* C15: reset() at any phase sets phase = 'idle', progress = 0, startTime = 0
\* and the identity transform, and leaves the rest unchanged: the direction,
\* the session state (savePos, elementPos), the bound listeners, the pending
\* timers, the observer, every style of the layers and the document; a
\* second reset() right after changes nothing.
C15_ResetFrame ==
    [][\A i \in Instances :
          CallReset(i)
             => LET old == instances[i].animationState
                    new == instances'[i].animationState
                IN /\ new.phase = "idle"
                   /\ new.progress = Zero
                   /\ new.startTime = "0"
                   /\ new.currentTransform = Identity
                   /\ new.direction = old.direction
                   /\ Rest(instances'[i]) = Rest(instances[i])
                   /\ \A j \in Instances \ {i} : instances'[j] = instances[j]
                   /\ UNCHANGED <<kids, display, styleCount, docMouseUp>>
                   /\ Reset(instances'[i]) = instances'[i]]_vars

\* C15 witness: reset() was called in the middle of a session, which is
\* still active with its styles applied
C15_ResetMidSession ==
    /\ call.op = "reset"
    /\ Phase(Solo) = "idle"
    /\ SessionActive(Solo)
    /\ instances[Solo].dom.mask.transform # None

-----------------------------------------------------------------------------
(* Visibility trigger *)

Opacity(i) == instances[i].dom.container.opacity
ShowTimer(i) == [kind |-> "show", delay |-> instances[i].finalConfig.delay]
\* how many reveals are scheduled and not yet run
PendingShows(i) == CopiesIn(ShowTimer(i), instances[i].timers)

\* C16: where the visibility trigger is set up, the container starts with
\* opacity 0 and keeps it until the reveal; only the first intersecting
\* observation schedules the reveal (at once if delay is 0, by one timeout of
\* 'delay' ms otherwise); every other observation, also one that arrives
\* while the delay is pending, changes nothing; the reveal runs at most once
\* per instance, and when it sets opacity to 1 the container is unobserved.
C16_OneShotReveal ==
    [][\A i \in Instances :
          instances[i].observer.exists
             => LET S == instances[i]
                    T == instances'[i]
                    revealed == IF Opacity(i) = "1" THEN 1 ELSE 0
                IN /\ ~S.observer.hasTriggered => Opacity(i) = "0"
                   /\ revealed + PendingShows(i) <= 1
                   /\ (revealed + PendingShows(i) = 1) <=> S.observer.hasTriggered
                   /\ Opacity(i) = "1" => ~S.observer.observing
                   /\ Opacity(i) \in {"0", "1"}
                   /\ Opacity(i) = "1" => Opacity(i)' = "1"
                   /\ \A b \in BOOLEAN :
                         IntersectionCallback(i, b)
                            => IF b /\ ~S.observer.hasTriggered
                               THEN /\ T.observer.hasTriggered
                                    /\ IF JsGt(S.finalConfig.delay, JsNum(0))
                                       THEN /\ T.timers = S.timers (+) SetToBag({ShowTimer(i)})
                                            /\ T.dom = S.dom
                                            /\ T.observer.observing
                                       ELSE /\ T.timers = S.timers
                                            /\ T.dom.container.opacity = "1"
                                            /\ ~T.observer.observing
                               ELSE T = S]_vars

\* C16 witness: a delayed reveal has run: the first intersecting observation
\* scheduled it, and the timeout set opacity to 1 and unobserved the container
C16_RevealedAfterDelay ==
    /\ instances[Solo].observer.exists
    /\ instances[Solo].observer.hasTriggered
    /\ JsGt(instances[Solo].finalConfig.delay, JsNum(0))
    /\ Opacity(Solo) = "1"
    /\ ~instances[Solo].observer.observing
    /\ PendingShows(Solo) = 0

-----------------------------------------------------------------------------
(* Auto animation *)

\* a step in which a frame of the animation runs
FrameStep == \E id \in auto.pending, t \in FrameTimes(auto) : AnimationFrame(id, t)

Completed == auto.frame # None /\ auto.frame[1].progress = One

\* C17: stop() cancels the pending frame callback and can be called any
\* number of times, before or after completion: at every moment at most one
\* frame callback is pending, and it is the one animationFrame names; once
\* stop() has returned no frame is pending, no frame of the animation runs,
\* no style is written and no frame is requested; stop() itself writes no
\* style, and a second stop() changes nothing.
C17_StopCancels ==
    /\ [](/\ Cardinality(auto.pending) <= 1
          /\ auto.pending # {} => auto.animationFrame = Some(CHOOSE id \in auto.pending : TRUE)
          /\ auto.stopped => auto.pending = {})
    /\ [][/\ auto.stopped
             => /\ ~FrameStep
                /\ auto'.dom = auto.dom
                /\ auto'.nextId = auto.nextId
                /\ auto'.pending = {}
          /\ CallAutoStop
             => /\ auto'.pending = {}
                /\ auto'.dom = auto.dom
                /\ auto'.nextId = auto.nextId
                /\ AutoStop(auto') = auto']_vars

\* C17 witness: stop() was called in the middle of the animation, after a
\* frame that requested the next one, and nothing is pending
C17_StoppedMidAnimation ==
    /\ auto.stopped
    /\ auto.frame # None
    /\ auto.frame[1].progress # One
    /\ auto.frame[1].progress # Zero
    /\ auto.pending = {}
    /\ auto.dom.container.filter = ""

\* the styles of the layers at progress 1
FinalStyles(A) ==
    ApplyPeelStyles(A.dom,
                    CalculateAutoAnimationValues(A.size, A.config.direction, 1000,
                                                 A.config.shadowIntensity),
                    AllZero)

FracLe(a, b) == a.num * b.den <= b.num * a.den

\* C19: auto-path progress is monotone: for non-decreasing frame timestamps,
\* a first timestamp of 0 included, the progress computed at successive
\* frames is non-decreasing, stays within [0, 1], and is exactly 1 at every
\* frame whose elapsed time since the first frame is >= duration.
C19_ProgressMonotone ==
    [][FrameStep
          => LET new == auto'.frame[1]
                 sinceFirst == new.time - auto'.first[1]
             IN /\ FracLe(Zero, new.progress)
                /\ FracLe(new.progress, One)
                /\ auto.frame # None => FracLe(auto.frame[1].progress, new.progress)
                /\ sinceFirst >= auto.config.duration => new.progress = One]_vars

\* C20 as stated: for every progress p in [0, 1] handed to the geometry,
\* shadowProgress = min(1.5 * p, 1) is at least p, and it equals p only for
\* p >= 2/3.
C20_ShadowLeadsEqualLate ==
    LET p == auto.applied
        shadow == ShadowProgress(p)
    IN auto.life = "created"
          => /\ shadow >= 2 * p
             /\ shadow = 2 * p => 3 * p >= 2000

\* the relation between a progress in thousandths and its shadow progress
ShadowLeads(p) ==
    LET shadow == ShadowProgress(p)
    IN /\ shadow >= 2 * p
       /\ shadow <= 2000
       /\ shadow = 2 * p <=> p \in {0, 1000}
       /\ shadow = 2000 <=> 3 * p >= 2000

ShadowLeadsEverywhere == \A p \in 0..1000 : ShadowLeads(p)

\* C20 amended: for every progress p in [0, 1], shadowProgress =
\* min(1.5 * p, 1) is at least p and at most 1; it equals p exactly at p = 0
\* and p = 1 and is greater in between; it is capped at 1 exactly for
\* p >= 2/3.
C20_ShadowLeads ==
    /\ ShadowLeadsEverywhere
    /\ auto.life = "created" => ShadowLeads(auto.applied)

\* C20 witness: a frame has handed the geometry a progress strictly between
\* 0 and 2/3, where the shadow progress is ahead and not yet capped
C20_ShadowAhead ==
    /\ auto.frame # None
    /\ auto.applied > 0
    /\ 3 * auto.applied < 2000
    /\ ShadowProgress(auto.applied) > 2 * auto.applied
    /\ ShadowProgress(auto.applied) < 2000
    /\ auto.dom.mask.width = auto.size * auto.applied

-----------------------------------------------------------------------------
(* Geometry *)

\* the geometry a set of layers carries: what applyPeelStyles wrote last
Geometry(dom) ==
    [mask |-> <<dom.mask.width, dom.mask.height, dom.mask.transform>>,
     move |-> dom.move.transform,
     back |-> dom.back.transform,
     backImg |-> dom.backImg.transform,
     backShadow |-> <<dom.backShadow.width, dom.backShadow.height,
                      dom.backShadow.transform>>,
     depth |-> <<dom.depth.width, dom.depth.height, dom.depth.transform>>]

\* the geometry the layers carry once the values are applied
GeometryOf(values) ==
    Geometry(ApplyPeelStyles(CreateStickerDOM(0, 0), values, AllZero))

\* the pointer-path calculator as a function of (direction, pointer sample)
\* alone, for the element's extent
PeelTable ==
    [d \in Directions, e \in PointerSamples \cup {EmptyMouseEvent} |->
        CalculatePeelValues(e, ContainerOrigin, ElementSize, d)]

\* the auto-path calculator as a function of (direction, progress) alone,
\* for the animation's size
AutoTable ==
    [d \in Directions, p \in 0..1000 |->
        CalculateAutoAnimationValues(AutoSize, d, p, DefaultShadowIntensity)]

\* the shadowIntensity argument of the auto-path calculator feeds nothing
AutoIgnoresIntensity ==
    \A d \in Directions, p \in 0..1000, s \in {0, 10} :
       CalculateAutoAnimationValues(AutoSize, d, p, s) = AutoTable[d, p]

-----------------------------------------------------------------------------
(* End-to-end scenario on the 200x100 element *)

\* a session is active that was entered at offset (10, 10)
InScenario(i) ==
    /\ SessionActive(i)
    /\ instances[i].savePos = HandleMouseEnter(instances[i], ScenarioStart).savePos

\* the peeled width the layers show: the width of the back shadow
PeeledWidth(dom) == dom.backShadow.width

\* the x offset of the sample applied last in a horizontal session
LastX(S) ==
    IF S.currentDirection = "left"
    THEN S.dom.back.transform[1] + ElementSize.width
    ELSE S.dom.back.transform[1]

\* the steps of the scenario when the session peels in the given direction
ScenarioStep(direction) ==
    /\ OnEnter(Solo, ScenarioStart)
          => /\ instances'[Solo].currentDirection = direction
             /\ Phase(Solo)' = "peeling"
             /\ PeeledWidth(instances'[Solo].dom) = 10
    /\ \A e \in ScenarioSamples :
          (InScenario(Solo) /\ OnMove(Solo, e)
              /\ e.pageX - ContainerOrigin.x >= LastX(instances[Solo]))
             => LET old == PeeledWidth(instances[Solo].dom)
                    new == PeeledWidth(instances'[Solo].dom)
                IN /\ instances'[Solo].currentDirection = direction
                   /\ Phase(Solo) = "peeling" => Phase(Solo)' = "peeling"
                   /\ new >= old
                   /\ new >= 10
                   /\ new <= 150
                   /\ e = ScenarioEnd => new = 150
                   /\ instances'[Solo].dom.mask.width = ElementSize.width - new \div 2
                   /\ instances'[Solo].dom.mask.height = ElementSize.height
    /\ \A e \in ScenarioSamples :
          (InScenario(Solo) /\ OnLeave(Solo, e))
             => /\ instances'[Solo].dom.back.transform = Retracted(direction)
                /\ Phase(Solo)' = "stuck"

\* C22 as stated: on the 200x100 element a session that enters at offset
\* (10, 10) and moves through increasing x to (150, 10) peels in direction
\* 'right', the peeled width growing monotonically and the mask width being
\* the element width less half the peeled width; a leave retracts the back
\* face fully and sets phase 'stuck'.
C22_ScenarioPeelsRight == [][ScenarioStep("right")]_vars

\* C22 amended: that session peels in direction 'left' (10 < 25 =
\* min(200, 100) / 4): the peeled width is the pointer's x offset, growing
\* monotonically from 10 to 150, the mask width is 200 - floor(peeled / 2)
\* (195 down to 125); a leave moves the back face to (-200, 0) and sets
\* phase 'stuck'.
C22_ScenarioPeelsLeft == [][ScenarioStep("left")]_vars

\* C22 witness: the session entered at (10, 10) has reached (150, 10)
C22_ReachedEnd ==
    /\ InScenario(Solo)
    /\ Phase(Solo) = "peeling"
    /\ instances[Solo].currentDirection = "left"
    /\ PeeledWidth(instances[Solo].dom) = 150
    /\ instances[Solo].dom.mask.width = 125
    /\ instances[Solo].dom.back.transform = <<-50, 0>>
    /\ instances[Solo].animationState.progress = Frac(3, 4)

-----------------------------------------------------------------------------
(* Progress *)

\* the element's extent on the peel axis of a direction
Extent(direction) ==
    IF direction \in {"left", "right"} THEN ElementSize.width ELSE ElementSize.height

\* the back-face translation on the peel axis of a direction
BackOnAxis(dom, direction) ==
    IF direction \in {"left", "right"} THEN dom.back.transform[1] ELSE dom.back.transform[2]

ProgressInRange(i) ==
    /\ FracLe(Zero, instances[i].animationState.progress)
    /\ FracLe(instances[i].animationState.progress, One)

\* C23: animationState.progress is within [0, 1] in every reachable state:
\* after any move it is 1 - |back-face translation on the peel axis| /
\* (element extent on the peel axis), and this stays within [0, 1] for every
\* pointer or touch sample the handlers can receive, also one outside the
\* element's box.
C23_ProgressInRange ==
    /\ [](\A i \in Instances : ProgressInRange(i))
    /\ [][\A i \in Instances, e \in PointerSamples :
             OnMove(i, e)
                => LET d == instances'[i].currentDirection
                   IN /\ instances'[i].animationState.progress
                            = Frac(Extent(d) - Abs(BackOnAxis(instances'[i].dom, d)),
                                   Extent(d))
                      /\ ProgressInRange(i)']_vars

-----------------------------------------------------------------------------
(* Pointer-path geometry *)

\* the pointer's distance from the near edge of a direction
Peeled(direction, tx, ty) ==
    CASE direction = "left" -> tx
      [] direction = "right" -> ElementSize.width - tx
      [] direction = "top" -> ty
      [] direction = "bottom" -> ElementSize.height - ty

\* every integer offset inside the element, the edges included
InsideOffsets ==
    {<<tx, ty>> : tx \in 0..ElementSize.width, ty \in 0..ElementSize.height}

Inside(e) ==
    <<e.pageX - ContainerOrigin.x, e.pageY - ContainerOrigin.y>> \in InsideOffsets

\* the layers after the values of (direction, offset) are applied
LayersAt(direction, tx, ty) ==
    ApplyPeelStyles(CreateStickerDOM(ElementSize.width, ElementSize.height),
                    CalculatePeelValues(Offset(tx, ty), ContainerOrigin, ElementSize,
                                        direction),
                    AllZero)

Negated(transform) == <<-transform[1], -transform[2]>>

\* the mask of the layers: extent - floor(peeled / 2) on the peel axis, the
\* full extent on the other, and the moving layer the opposite way
MaskRule(dom, direction, peeled) ==
    /\ IF direction \in {"left", "right"}
       THEN /\ dom.mask.width = ElementSize.width - peeled \div 2
            /\ dom.mask.height = ElementSize.height
       ELSE /\ dom.mask.width = ElementSize.width
            /\ dom.mask.height = ElementSize.height - peeled \div 2
    /\ dom.move.transform = Negated(dom.mask.transform)

MaskRuleEverywhere ==
    \A d \in Directions, o \in InsideOffsets :
       MaskRule(LayersAt(d, o[1], o[2]), d, Peeled(d, o[1], o[2]))

\* C24: pointer-path mask geometry: for every direction and integer pointer
\* offset inside the element the mask size on the peel axis is
\* extent - floor(peeled / 2), peeled being the pointer's distance from the
\* near edge, the mask size on the other axis is the full extent, and the
\* transform written to the moving layer is the negation of the one written
\* to the mask; so it is after every enter and move of a session at such an
\* offset, and the two transforms are opposite after a leave as well.
C24_MaskGeometry ==
    [][/\ MaskRuleEverywhere
       /\ \A i \in Instances, e \in PointerSamples :
             ((OnEnter(i, e) \/ OnMove(i, e)) /\ Inside(e))
                => MaskRule(instances'[i].dom, instances'[i].currentDirection,
                            Peeled(instances'[i].currentDirection,
                                   e.pageX - ContainerOrigin.x,
                                   e.pageY - ContainerOrigin.y))
       /\ \A i \in Instances, e \in PointerSamples \cup {EmptyMouseEvent} :
             (OnLeave(i, e) /\ SessionActive(i))
                => instances'[i].dom.move.transform
                      = Negated(instances'[i].dom.mask.transform)]_vars

\* C24 witness: a session peeling from the left has moved to x offset 175:
\* the mask is 200 - floor(175 / 2) wide and offset by 87, the moving layer
\* by -87
C24_MaskHalfPeeled ==
    /\ SessionActive(Solo)
    /\ instances[Solo].currentDirection = "left"
    /\ instances[Solo].dom.back.transform = <<-25, 0>>
    /\ instances[Solo].dom.mask.width = 113
    /\ instances[Solo].dom.mask.height = ElementSize.height
    /\ instances[Solo].dom.mask.transform = <<87, 0>>
    /\ instances[Solo].dom.move.transform = <<-87, 0>>

\* the back face and the back shadow of the layers: the back face at
\* -extent + peeled (left, top) or extent - peeled (right, bottom) on the
\* peel axis and 0 on the other; the shadow peeled long on the peel axis and
\* the full extent on the other, at extent - peeled (left, top) or at 0
BackRule(dom, direction, peeled) ==
    LET near == direction \in {"left", "top"}
        along == IF near THEN -Extent(direction) + peeled ELSE Extent(direction) - peeled
        at == IF near THEN Extent(direction) - peeled ELSE 0
    IN IF direction \in {"left", "right"}
       THEN /\ dom.back.transform = <<along, 0>>
            /\ dom.backShadow.width = peeled
            /\ dom.backShadow.height = ElementSize.height
            /\ dom.backShadow.transform = <<at, 0>>
       ELSE /\ dom.back.transform = <<0, along>>
            /\ dom.backShadow.width = ElementSize.width
            /\ dom.backShadow.height = peeled
            /\ dom.backShadow.transform = <<0, at>>

\* on every offset over and around the element
BackRuleEverywhere ==
    \A d \in Directions, o \in OffsetGrid :
       BackRule(LayersAt(d, o[1], o[2]), d, Peeled(d, o[1], o[2]))

\* C25: pointer-path back face and shadow: for every direction and pointer
\* offset the back-face translation on the peel axis is -extent + peeled for
\* left and top and extent - peeled for right and bottom (0 on the other
\* axis), and the shadow rectangle is peeled long on the peel axis and the
\* full extent on the other, positioned at extent - peeled for left and top
\* and at 0 for right and bottom; so it is after every enter and move.
C25_BackFaceAndShadow ==
    [][/\ BackRuleEverywhere
       /\ \A i \in Instances, e \in PointerSamples :
             (OnEnter(i, e) \/ OnMove(i, e))
                => BackRule(instances'[i].dom, instances'[i].currentDirection,
                            Peeled(instances'[i].currentDirection,
                                   e.pageX - ContainerOrigin.x,
                                   e.pageY - ContainerOrigin.y))]_vars

\* C25 witness: a session peeling from the top has moved down to y offset
\* 75: the back face is at -100 + 75, the shadow 75 high at 100 - 75
C25_TopPeeledDown ==
    /\ SessionActive(Solo)
    /\ instances[Solo].currentDirection = "top"
    /\ instances[Solo].dom.back.transform = <<0, -25>>
    /\ instances[Solo].dom.backShadow.width = ElementSize.width
    /\ instances[Solo].dom.backShadow.height = 75
    /\ instances[Solo].dom.backShadow.transform = <<0, 25>>

-----------------------------------------------------------------------------
(* Depth shadow *)

\* the off-screen coordinate, px
Sentinel == -10000

\* pointer path: the depth shadow is floor(peeled / 2) on the peel axis
DepthRule(dom, direction, peeled) ==
    IF direction \in {"left", "right"}
    THEN dom.depth.width = peeled \div 2
    ELSE dom.depth.height = peeled \div 2

DepthRuleEverywhere ==
    \A d \in Directions, o \in InsideOffsets :
       DepthRule(LayersAt(d, o[1], o[2]), d, Peeled(d, o[1], o[2]))

\* auto path: the depth shadow of the layers is off-screen on the peel axis
AutoDepthOffScreen(A) ==
    IF A.config.direction \in {"left", "right"}
    THEN A.dom.depth.transform[1] = Px(Sentinel)
    ELSE A.dom.depth.transform[2] = Px(Sentinel)

\* the extent the auto animation has revealed, in thousandths of a pixel
Revealed(A) == A.size * A.applied

\* the auto-path part of C26 for the given directions
AutoDepthSentinel(directions) ==
    (auto.life = "created" /\ auto.config.direction \in directions
        /\ Revealed(auto) <= Px(10))
       => AutoDepthOffScreen(auto)

\* the pointer-path part of C26
PointerDepth ==
    /\ DepthRuleEverywhere
    /\ \A i \in Instances, e \in PointerSamples :
          ((OnEnter(i, e) \/ OnMove(i, e)) /\ Inside(e))
             => DepthRule(instances'[i].dom, instances'[i].currentDirection,
                          Peeled(instances'[i].currentDirection,
                                 e.pageX - ContainerOrigin.x,
                                 e.pageY - ContainerOrigin.y))
    /\ \A i \in Instances, e \in PointerSamples \cup {EmptyMouseEvent} :
          (OnLeave(i, e) /\ SessionActive(i))
             => instances'[i].dom.depth.transform = <<Sentinel, Sentinel>>
    /\ DocumentMouseUp
          => \A i \in Listening :
                SessionActive(i)
                   => instances'[i].dom.depth.transform = <<Sentinel, Sentinel>>

\* C26: depth shadow: in the pointer path its size on the peel axis is
\* floor(peeled / 2) for every direction; it is at (-10000, -10000) after
\* every leave; and in the auto path it is at the off-screen sentinel for
\* every direction (left, right, top and bottom) while the revealed extent
\* is at most 10 px, in particular at progress 0.
C26_DepthShadow ==
    /\ [][PointerDepth]_vars
    /\ [](AutoDepthSentinel(Directions))

-----------------------------------------------------------------------------
(* Shadow class *)

\* the back shadow and the depth shadow carry the class of the tag
CarriesShadowClass(dom, bs) ==
    /\ dom.backShadow.className = ShadowClass(bs)
    /\ dom.depth.className = ShadowClass(bs)

\* the pointer-path part of C27: after the applyPeelStyles call of an enter,
\* a move or a leave
PointerShadowClass ==
    /\ \A i \in Instances, e \in PointerSamples :
          (OnEnter(i, e) \/ OnMove(i, e))
             => CarriesShadowClass(instances'[i].dom,
                                   ShadowTag(instances'[i].currentDirection))
    /\ \A i \in Instances, e \in PointerSamples \cup {EmptyMouseEvent} :
          (OnLeave(i, e) /\ SessionActive(i))
             => CarriesShadowClass(instances'[i].dom,
                                   ShadowTag(instances[i].currentDirection))

\* the auto-path part of C27: after the applyPeelStyles call of start() and
\* of every frame
AutoShadowClass ==
    auto.life = "created"
       => CarriesShadowClass(auto.dom, ShadowTag(auto.config.direction))

\* C27: the style applier writes the active shadow class together with the
\* geometry: after every applyPeelStyles call, on the pointer path and on
\* the auto-animation path alike, the back-shadow and depth-shadow elements
\* carry the shadow class named by the tag of the applied geometry (shadowL,
\* shadowR, shadowT or shadowB) for the direction being animated.
C27_ApplierWritesShadowClass ==
    /\ [][PointerShadowClass]_vars
    /\ []AutoShadowClass

-----------------------------------------------------------------------------
(* Stylesheet removal *)

\* the instance's injectGlobalStyles call created the style element
Injector(i) == instances[i].cleanupStyles = "remove"

\* C28 as stated: the stylesheet is removed on any instance's destroy():
\* whether or not the instance injected it, its destroy() leaves the
\* document without the 'sticker-animation-styles' element.
C28_AnyDestroyRemoves ==
    [][\A i \in Instances : CallDestroy(i) => styleCount' = 0]_vars

\* C28 amended: only the destroy() of an instance that injected the
\* stylesheet removes it, and it does so whatever other instances are live;
\* the destroy() of an instance constructed while the stylesheet was present
\* leaves the stylesheet as it is.
C28_InjectorDestroyRemoves ==
    [][\A i \in Instances :
          CallDestroy(i)
             => IF Injector(i) THEN styleCount' = 0 ELSE styleCount' = styleCount]_vars

\* C28 witness: an instance that did not inject the stylesheet was
\* destroyed, and the stylesheet is still in the document
C28_StylesheetSurvivesDestroy ==
    /\ call.op = "destroy"
    /\ Destroyed(call.inst)
    /\ ~Injector(call.inst)
    /\ styleCount = 1
    /\ \E j \in Instances \ {call.inst} : Live(j) /\ Injector(j)

-----------------------------------------------------------------------------
(* Resize debounce *)

RefreshTimers == {t \in page.timeouts : t.kind = "refresh"}

\* C29: resize handling coalesces bursts: at most one resize timer is
\* pending at any time; each resize event cancels the pending timer and
\* starts a new one of 250 ms, which resizeTimer names; ScrollTrigger.refresh
\* runs only from that timer, exactly 250 ms after the last resize event and
\* never sooner, and once per burst: after the last resize event either the
\* timer is pending and no refresh has run, or it has fired and exactly one
\* refresh has run.
C29_ResizeDebounced ==
    /\ [](/\ Cardinality(RefreshTimers) <= 1
          /\ \A t \in RefreshTimers :
                /\ page.resizeTimer = Some(t.id)
                /\ page.quiet = Some(ResizeDelay - t.remaining)
          /\ page.quiet = None => (RefreshTimers = {} /\ page.refreshes = 0)
          /\ page.quiet # None
                => IF RefreshTimers # {} THEN page.burstRefreshes = 0
                   ELSE page.burstRefreshes = 1 /\ page.quiet = Some(ResizeDelay))
    /\ [][/\ Resize
             => /\ Cardinality({t \in page'.timeouts : t.kind = "refresh"}) = 1
                /\ \A t \in page'.timeouts :
                      t.kind = "refresh"
                         => /\ t.remaining = ResizeDelay
                            /\ t \notin page.timeouts
                            /\ page'.resizeTimer = Some(t.id)
                /\ page'.refreshes = page.refreshes
          /\ page'.refreshes # page.refreshes
                => /\ page'.refreshes = page.refreshes + 1
                   /\ \E t \in RefreshTimers : PageTimeoutFires(t)
                   /\ page.quiet = Some(ResizeDelay)]_vars

\* C29 witness: a burst of three resize events less than 250 ms apart was
\* followed by one refresh, 250 ms after the last of them
C29_BurstRefreshedOnce ==
    /\ page.op = "refresh"
    /\ page.nextTimeout = 4
    /\ page.refreshes = 1
    /\ page.quiet = Some(ResizeDelay)
    /\ page.timeouts = {}

-----------------------------------------------------------------------------
(* Computed-style cache *)

EvictTimers(k) == {t \in page.timeouts : t.kind = "evict" /\ t.key = k}

\* the entry of key k was stored by a call for the element less than 1000 ms ago
StoredFor(k, element) ==
    /\ page.stored[k] # None
    /\ page.stored[k][1].by = element.name
    /\ page.stored[k][1].ago < CacheLifetime

-----------------------------------------------------------------------------
(* Scroll-trigger registry *)

\* the triggers the registry holds
Registered == {page.scrollTriggers[id][1] :
                 id \in {k \in TriggerIds : page.scrollTriggers[k] # None}}

\* C31: after any sequence of createManagedScrollTrigger, killScrollTrigger
\* and killAllScrollTriggers calls, creations that fail included, the
\* registry maps each id to at most one trigger, every trigger it holds has
\* not been killed, and a trigger replaced under the same id is killed
\* before its replacement is stored.
C31_RegistryLive ==
    /\ [](/\ \A id \in TriggerIds : Len(page.scrollTriggers[id]) <= 1
          /\ Registered \cap page.killed = {})
    /\ [][\A id \in TriggerIds :
             (/\ page.scrollTriggers[id] # None
              /\ page'.scrollTriggers[id] # page.scrollTriggers[id])
                => page.scrollTriggers[id][1] \in page'.killed]_vars

-----------------------------------------------------------------------------
(* Session and phase *)

\* C32: session and phase agree in every reachable state: whenever a pointer
\* session is active (savePos is set) the phase is 'peeling', and whenever
\* the phase is 'idle' or 'stuck' no session is active, across any
\* interleaving of enter, move, leave, reset, trigger and destroy.
C32_SessionPhaseAgree ==
    \A i \in Instances :
        instances[i].life # "none"
            => /\ SessionActive(i) => Phase(i) = "peeling"
               /\ Phase(i) \in {"idle", "stuck"} => ~SessionActive(i)

-----------------------------------------------------------------------------
(* Ownership of the document mouseup listener *)

\* the document mouseup listeners that instance i registered
ListenersOf(i) == {n \in DOMAIN docMouseUp : docMouseUp[n].inst = i}

\* the session of instance i is the one that the bare move of listener l
\* started: savePos still holds the values of the event the listener captured
OwnSession(i, l) ==
    instances[i].savePos = HandleMouseEnter(instances[i], l.e).savePos

\* C33: a document mouseup listener registered by a bare move belongs to
\* the session that registered it: at most one such listener is registered
\* per instance at any time, none remains registered once its session has
\* ended, and a listener that runs never ends a later session, one started
\* after its own session was ended by a native leave or touch-end.
C33_ListenerOwnedBySession ==
    /\ [](\A i \in Instances :
             /\ Cardinality(ListenersOf(i)) <= 1
             /\ ListenersOf(i) # {} => SessionActive(i))
    /\ [][DocumentMouseUp
             => \A i \in Instances :
                   \A n \in ListenersOf(i) :
                       (SessionActive(i) /\ ~SessionActive(i)')
                           => OwnSession(i, docMouseUp[n])]_vars

-----------------------------------------------------------------------------
(* The delayed drop shadow *)

\* the drop-shadow timeout of instance i comes due and writes the filter
DropShadowFires(i) ==
    \E timer \in BagToSet(instances[i].timers) :
        timer.kind = "dropShadow" /\ TimeoutFires(i, timer)

\* C34: the delayed drop shadow scheduled by a leave is applied only to a
\* sticker that is still stuck: in every interleaving of the timeout with
\* later events, the container's drop-shadow filter is never written while
\* a new pointer session is active (phase 'peeling') and never after
\* destroy().
C34_DropShadowOnlyWhenStuck ==
    [][\A i \in Instances :
          DropShadowFires(i)
             => /\ ~Destroyed(i)
                /\ ~SessionActive(i)
                /\ Phase(i) = "stuck"]_vars

-----------------------------------------------------------------------------
(* The end of the auto animation *)

\* the layers show the element fully revealed: the mask covers the whole
\* element at offset (0,0) and the back face is off the element by size on
\* the peel axis
FullyRevealed(dom, direction, size) ==
    /\ dom.mask.width = Px(size)
    /\ dom.mask.height = Px(size)
    /\ dom.mask.transform = <<0, 0>>
    /\ Len(dom.back.transform) = 2
    /\ Abs(IF direction \in {"left", "right"}
           THEN dom.back.transform[1]
           ELSE dom.back.transform[2]) = Px(size)

\* C35: the auto animation ends fully revealed in the same way for every
\* direction: at progress 1 the geometry for left, right, top and bottom
\* alike has the mask covering the whole element (width = height = size) at
\* offset (0,0) and the back face translated completely off the element: the
\* absolute value of its translation on the peel axis equals size.
C35_AutoEndsRevealed ==
    Completed => FullyRevealed(auto.dom, auto.config.direction, auto.size)

====
